---- MODULE Spec2Model ----
(***************************************************************************)
(* Tracking / mapping pipeline of FullSystem (src/dso/FullSystem).         *)
(*                                                                         *)
(* The thread calling addActiveFrame ("tracker") builds a frame, tracks it *)
(* against the serving coarse tracker, decides on a keyframe and hands the *)
(* frame to the mapping thread ("mapper") through unmappedTrackedFrames.   *)
(* The mapper runs mappingLoop and executes makeKeyFrame/makeNonKeyFrame.  *)
(* With linearizeOperation the tracker thread maps the frame itself.       *)
(*                                                                         *)
(* Numerical collaborators (coarse tracker inner loop, initialiser,        *)
(* optimiser) are represented by their outcomes, drawn                     *)
(* nondeterministically; the marginalisation policy drops the oldest       *)
(* keyframe of a full window.  Frames are identified by their shell id.    *)
(*                                                                         *)
(* Eight components below the pipeline have a specification of their     *)
(* own, each with the pipeline at rest: ImmaturePoint::traceOn on one      *)
(* point (TraceSpec), the keyframe window with its points and residuals    *)
(* (WindowSpec), the start poses and the result of trackNewCoarse          *)
(* (TrackSpec), the keyframe decision of addActiveFrame (KeyframeSpec),    *)
(* the marginalisation loop of makeKeyFrame (MarginalizeSpec), the         *)
(* filtering of immature points in activatePointsMT (ActivationSpec), the  *)
(* flags set by flagPointsForRemoval (RemovalSpec) and the mutexes and     *)
(* signals of the two threads, statement by statement (LockSpec).          *)
(***************************************************************************)
EXTENDS Integers, Sequences, FiniteSets, Bags, TLC

\* ------------------------------------------------------------------ bounds
\* number of images handed to addActiveFrame
MaxFrames == 8
\* number of images handed to addActiveFrame in the runs checked for progress
MaxLiveFrames == 5

\* number of keyframes the window holds before one is marginalised
MaxWindow == 3

\* wG[0] and hG[0]: size of the images, in pixels
ImageWidth == 24
ImageHeight == 24

\* maxPixSearch = (wG[0]+hG[0])*setting_maxPixSearch: longest search
\* segment of traceOn, in pixels
MaxPixSearch == 12

\* setting_trace_slackInterval as a fraction (1.5 pixels)
setting_trace_slackInterval == <<3, 2>>

\* number of keyframes made in the runs of the window component
MaxKeyFrames == 4

\* number of pixels the pixel selector picks on a keyframe
MaxPointsPerFrame == 2

\* setting_desiredPointDensity: the number of active points aimed at
setting_desiredPointDensity == 20

Threads == {"tracker", "mapper"}
Trackers == {"A", "B"}
Mutexes == {"trackMutex", "trackMapSyncMutex", "mapMutex",
            "coarseTrackerSwapMutex", "shellPoseMutex"}

VARIABLES
  nImages,                 \* length of the image sequence the caller plays
  setting_useIMU,          \* global setting, fixed for a run
  linearizeOperation,      \* constructor argument, fixed for a run
  setting_realTimeMaxKF,   \* global setting, fixed for a run
  pc,                      \* position of each thread
  fh,                      \* shell id of the frame a thread works on
  local,                   \* addActiveFrame's locals for that frame
  branch,                  \* call site of the mapper's current make*Frame
  allFrameHistory,         \* shell ids in order of insertion
  initialized,
  firstFrame,              \* coarseInitializer->firstFrame (-1: not set)
  firstPose,               \* -1: as constructed, else the frame whose
                           \*     gravity estimate it was computed from
  isLost,
  setting_fullResetRequested,
  coarseTracker,           \* which instance serves the tracking thread
  refFrameID,              \* CoarseTracker::refFrameID of both instances
  unmappedTrackedFrames,
  needNewKFAfter,
  needToKetchupMapping,
  runMapping,
  frameHessians,           \* the keyframe window, keyframes by frameID
  backShellId,             \* frameHessians.back()->shell->id
  allKeyFramesHistory,     \* keyframes by frameID (= keyframeId)
  flagged,                 \* window frames with flaggedForMarginalization
  preparedKeyframe,        \* imuIntegration: prepared keyframe id
  preparedKFCreated,       \* imuIntegration: keyframeCreated seen for it
  secondKeyframeDone,
  mutex,                   \* owner of each mutex
  signalled,               \* a waiting thread has been notified
  job,                     \* history: the mapper's last pop and its decision
  popped,                  \* history: number of pops so far, counted up to 3
  kfRequested,             \* history: a tracked frame left addActiveFrame
                           \*          with needToMakeKF = true
  writers,                 \* history: who mutated window / points / residuals
  optimized,               \* history: last keyframe whose optimize() returned
  traced,                  \* history: last frame passed to traceNewCoarse
  drained,                 \* history: last frame removed by the catch-up drain
  wanted,                  \* history: queued frames delivered with needKF
  point,                   \* an ImmaturePoint
  traceLog,                \* history: the last traceOn call on it
  mapState,                \* the keyframe window with its points and
                           \*   residuals, and makeKeyFrame's position
  trackState,              \* trackNewCoarse's locals and position
  kfState,                 \* the keyframe decision of addActiveFrame: its
                           \*   settings, framesBetweenKFsRest and the last
                           \*   decision
  margState,               \* a window with flagged keyframes, before and
                           \*   after the marginalisation loop
  actState,                \* the immature points of a keyframe, before and
                           \*   after activatePointsMT
  removalState,            \* the active points of a keyframe, before and
                           \*   after flagPointsForRemoval
  lockState                \* the two threads statement by statement: their
                           \*   mutexes, signals and tracking references

settings == <<nImages, setting_useIMU, linearizeOperation,
              setting_realTimeMaxKF>>
control == <<pc, fh, local, branch, mutex, signalled>>
trackerState == <<allFrameHistory, initialized, firstFrame, firstPose,
                  isLost, setting_fullResetRequested, coarseTracker>>
imuState == <<preparedKeyframe, preparedKFCreated, secondKeyframeDone>>
queueState == <<unmappedTrackedFrames, needNewKFAfter, needToKetchupMapping,
                runMapping>>
windowState == <<frameHessians, backShellId, allKeyFramesHistory, flagged,
                 refFrameID>>
history == <<job, popped, kfRequested, writers, optimized, traced, drained,
             wanted>>
pipeline == <<settings, control, trackerState, imuState, queueState,
              windowState, history>>
traceState == <<point, traceLog>>
components == <<traceState, mapState, trackState, kfState, margState,
               actState, removalState, lockState>>
vars == <<pipeline, components>>

\* ----------------------------------------------------------------- helpers
coarseTracker_forNewKF == IF coarseTracker = "A" THEN "B" ELSE "A"

Free(m) == mutex[m] = "free"

\* the process is still running (no exit(1), no failed assertion)
Alive == pc["tracker"] # "exited" /\ pc["mapper"] # "aborted"

\* what addActiveFrame knows about its frame when it calls
\* deliverTrackedFrame: shell->trackingRef->id, the needKF argument, and
\* whether the coarse tracking of the frame succeeded
Locals(ref, needKF, ok) == [trackingRef |-> ref, needKF |-> needKF, ok |-> ok]

NoLocals == Locals(-1, FALSE, FALSE)

NoFrame == -1

Last(s) == s[Len(s)]

RECURSIVE RemoveAll(_, _)
RemoveAll(s, set) ==
  IF s = <<>> THEN <<>>
  ELSE IF Head(s) \in set THEN RemoveAll(Tail(s), set)
       ELSE <<Head(s)>> \o RemoveAll(Tail(s), set)

\* (variant for comparison: the notification reaches nobody)
NotifyNobody(sig, t) == sig

\* boost::condition_variable::notify_all on the signal thread t waits on
NotifyAll(sig, t) == [sig EXCEPT ![t] = (pc[t] = "wait")]

NoJob == [frame |-> -1, kind |-> "none", forced |-> FALSE, depth |-> 0,
          own |-> FALSE, prev |-> -1]

\* ------------------------------------------------------------------- Init
\* the state after the constructor, for a caller that plays n images
Constructed(n) ==
  /\ nImages = n
  /\ setting_useIMU \in BOOLEAN
  /\ linearizeOperation \in BOOLEAN
  /\ setting_realTimeMaxKF \in BOOLEAN
  /\ pc = [t \in Threads |-> IF t = "tracker" THEN "idle" ELSE "start"]
  /\ fh = [t \in Threads |-> NoFrame]
  /\ local = NoLocals
  /\ branch = "none"
  /\ allFrameHistory = <<>>
  /\ initialized = FALSE
  /\ firstFrame = -1
  /\ firstPose = -1
  /\ isLost = FALSE
  /\ setting_fullResetRequested = FALSE
  /\ coarseTracker = "A"
  /\ refFrameID = [c \in Trackers |-> -1]
  /\ unmappedTrackedFrames = <<>>
  /\ needNewKFAfter = -1
  /\ needToKetchupMapping \in BOOLEAN   \* never assigned by the constructor
  /\ runMapping = TRUE
  /\ frameHessians = <<>>
  /\ backShellId = -1
  /\ allKeyFramesHistory = <<>>
  /\ flagged = {}
  /\ preparedKeyframe = -1
  /\ preparedKFCreated = FALSE
  /\ secondKeyframeDone = FALSE
  /\ mutex = [m \in Mutexes |-> "free"]
  /\ signalled = [t \in Threads |-> FALSE]
  /\ job = NoJob
  /\ popped = 0
  /\ kfRequested = FALSE
  /\ writers = {}
  /\ optimized = -1
  /\ traced = -1
  /\ drained = -1
  /\ wanted = {}

\* ------------------------------------------------- tracking thread: frames
\* (variant for comparison: the shell id counts the keyframes made so far)
NextKeyFrameId == Len(allKeyFramesHistory)

\* shell->id = allFrameHistory.size()
NextFrameId == Len(allFrameHistory)

\* the caller hands over the next image; it stops doing so once the system
\* reports isLost or asks for a full reset
CanAddFrame ==
  /\ Alive
  /\ pc["tracker"] = "idle"
  /\ Len(allFrameHistory) < nImages
  /\ ~isLost
  /\ ~setting_fullResetRequested
  /\ Free("trackMutex")

\* addActiveFrame, first frame: coarseInitializer->setFirst
AddFirstFrame ==
  /\ CanAddFrame
  /\ ~initialized
  /\ firstFrame = -1
  /\ allFrameHistory' = Append(allFrameHistory, NextFrameId)
  /\ firstFrame' = NextFrameId
  /\ UNCHANGED <<components, settings, control, initialized, firstPose, isLost,
                 setting_fullResetRequested, coarseTracker, imuState,
                 queueState, windowState, history>>

\* initializeFromInitializer: the first frame becomes the first keyframe of
\* the window (with its points inserted into the backend)
InitializeFromInitializer ==
  /\ frameHessians' = Append(frameHessians, Len(allKeyFramesHistory))
  /\ backShellId' = firstFrame
  /\ allKeyFramesHistory' =
       Append(allKeyFramesHistory, Len(allKeyFramesHistory))
  /\ initialized' = TRUE
  /\ writers' = writers \cup
        {[thread |-> "tracker", op |-> "initializeFromInitializer"]}

\* (variant for comparison: every initialiser frame rewrites firstPose)
FirstPoseWrittenAlways(initDone) == setting_useIMU

\* firstPose = imuToWorld * TS_cam_imu.inverse() is assigned in IMU mode on
\* the frame on which the initialiser reports success
FirstPoseWritten(initDone) == setting_useIMU /\ initDone

\* addActiveFrame while not initialised: coarseInitializer->trackFrame; on
\* success initializeFromInitializer and deliverTrackedFrame(fh, true)
InitializerFrame ==
  /\ CanAddFrame
  /\ ~initialized
  /\ firstFrame # -1
  /\ allFrameHistory' = Append(allFrameHistory, NextFrameId)
  /\ \E initDone \in BOOLEAN, tooLong \in BOOLEAN :
       /\ firstPose' = IF FirstPoseWritten(initDone) THEN NextFrameId
                                                      ELSE firstPose
       /\ IF initDone
          THEN /\ Free("mapMutex") /\ Free("shellPoseMutex")
               /\ InitializeFromInitializer
               /\ fh' = [fh EXCEPT !["tracker"] = NextFrameId]
               /\ local' = Locals(firstFrame, TRUE, TRUE)
               /\ pc' = [pc EXCEPT !["tracker"] = "deliver"]
               /\ UNCHANGED setting_fullResetRequested
          ELSE /\ setting_fullResetRequested' =
                    (setting_fullResetRequested \/ tooLong)
               /\ UNCHANGED <<fh, local, pc, frameHessians, backShellId,
                              allKeyFramesHistory, initialized, writers>>
  /\ UNCHANGED <<components, settings, branch, mutex, signalled, firstFrame,
                 isLost, coarseTracker, imuState, queueState, flagged,
                 refFrameID, job, popped, kfRequested, optimized, traced,
                 drained, wanted>>

\* (variant for comparison: the trackers are swapped for every frame)
SwapAlways == TRUE

\* (variant for comparison: the trackers are never swapped)
SwapNever == FALSE

\* the test guarding the swap of the two coarse trackers
SwapNeeded == refFrameID[coarseTracker_forNewKF] > refFrameID[coarseTracker]

\* addActiveFrame after initialisation, up to the call of trackNewCoarse:
\* new shell, then swap of the tracking reference under
\* coarseTrackerSwapMutex
AddActiveFrame ==
  /\ CanAddFrame
  /\ initialized
  /\ allFrameHistory' = Append(allFrameHistory, NextFrameId)
  /\ fh' = [fh EXCEPT !["tracker"] = NextFrameId]
  /\ IF SwapNeeded
     THEN /\ Free("coarseTrackerSwapMutex")
          /\ coarseTracker' = coarseTracker_forNewKF
     ELSE UNCHANGED coarseTracker
  /\ mutex' = [mutex EXCEPT !["trackMutex"] = "tracker"]
  /\ pc' = [pc EXCEPT !["tracker"] = "track"]
  /\ UNCHANGED <<components, settings, local, branch, signalled, initialized,
                 firstFrame, firstPose, isLost, setting_fullResetRequested,
                 imuState, queueState, windowState, history>>

\* what trackNewCoarse can report: whether a seed was accepted
\* (haveOneGood), trackingGoodRet, whether the flow indicators are finite,
\* and whether the predicted pose taken on total failure is sane.
\* Without IMU a seed is only accepted when the coarse tracker said good.
TrackOutcomes ==
  {[haveOneGood |-> TRUE, trackingGoodRet |-> g, flowFinite |-> f,
    poseSane |-> TRUE] :
      g \in (IF setting_useIMU THEN BOOLEAN ELSE {TRUE}), f \in BOOLEAN}
  \cup
  {[haveOneGood |-> FALSE, trackingGoodRet |-> g, flowFinite |-> TRUE,
    poseSane |-> p] : g \in BOOLEAN, p \in BOOLEAN}

\* isfinite(tres[0..3]): tres[0] = achievedRes[0] is NaN unless a seed was
\* accepted, tres[1..3] are the flow indicators
TresFinite(o) == o.haveOneGood /\ o.flowFinite

\* the frame was tracked successfully: a seed was accepted, the result is
\* finite and the coarse tracker reported good tracking
TrackedOK(o) == o.haveOneGood /\ TresFinite(o) /\ o.trackingGoodRet

\* (variant for comparison: a non-finite result is never given up on)
TrackingNeverLost(o) == FALSE

\* non-IMU mode gives up on a non-finite tracking result
TrackingLost(o) == ~TresFinite(o) /\ ~setting_useIMU

\* a non-finite result forces a keyframe in IMU mode
ForceKF(o) == ~TresFinite(o) /\ setting_useIMU

\* bad coarse tracking forbids a keyframe, unless the result is not finite
\* in IMU mode; so does a small translation (small) once the coarse IMU
\* scale is initialised
ForceNoKF(o, small) ==
  (IF ~TresFinite(o) /\ setting_useIMU THEN FALSE ELSE ~o.trackingGoodRet)
  \/ small

\* (variant for comparison: forceNoKF is not looked at)
NotOverridden(forceNoKF, needToMakeKF) == needToMakeKF

\* if(forceNoKF) needToMakeKF = false
Overridden(forceNoKF, needToMakeKF) == needToMakeKF /\ ~forceNoKF

\* keyframe decision of addActiveFrame: desired stands for the outcome of
\* the tests of the keyframe-rate mode, small for the small-baseline
\* override, skip for the setting_minFramesBetweenKeyframes override
NeedToMakeKF(o, desired, small, skip) ==
  Overridden(ForceNoKF(o, small), desired) /\ ~skip

\* trackNewCoarse and the keyframe decision of addActiveFrame
TrackNewCoarse ==
  /\ Alive
  /\ pc["tracker"] = "track"
  /\ Free("shellPoseMutex")
  /\ \E o \in TrackOutcomes, desired \in BOOLEAN, skip \in BOOLEAN,
        small \in (IF setting_useIMU THEN BOOLEAN ELSE {FALSE}) :
       LET need == NeedToMakeKF(o, desired, small, skip)
       IN IF ~o.haveOneGood /\ ~o.poseSane
          THEN \* exit(1)
               /\ pc' = [pc EXCEPT !["tracker"] = "exited"]
               /\ UNCHANGED <<isLost, mutex, fh, local, kfRequested>>
          ELSE IF TrackingLost(o)
          THEN /\ isLost' = TRUE
               /\ mutex' = [mutex EXCEPT !["trackMutex"] = "free"]
               /\ pc' = [pc EXCEPT !["tracker"] = "idle"]
               /\ fh' = [fh EXCEPT !["tracker"] = NoFrame]
               /\ UNCHANGED <<local, kfRequested>>
          ELSE /\ local' =
                    Locals(refFrameID[coarseTracker], need, TrackedOK(o))
               /\ kfRequested' = (kfRequested \/ need)
               /\ mutex' = [mutex EXCEPT !["trackMutex"] = "free"]
               /\ pc' = [pc EXCEPT !["tracker"] = "deliver"]
               /\ UNCHANGED <<isLost, fh>>
  /\ UNCHANGED <<components, settings, branch, signalled, allFrameHistory,
                 initialized, firstFrame, firstPose,
                 setting_fullResetRequested, coarseTracker, imuState,
                 queueState, windowState, job, popped, writers, optimized,
                 traced, drained, wanted>>

\* ------------------------------------------ imuIntegration (prepared keyframe)
\* getPreparedKeyframe is the last id passed to prepareKeyframe,
\* isPreparedKFCreated tells whether keyframeCreated was called for it
KeyframeCreated(id) ==
  IF setting_useIMU /\ id = preparedKeyframe THEN TRUE ELSE preparedKFCreated

\* ------------------------------------------------ deliverTrackedFrame
\* (variant for comparison: the frame is put in front of the waiting ones)
PushFront(q, f) == <<f>> \o q

\* unmappedTrackedFrames.push_back(fh)
PushBack(q, f) == Append(q, f)

\* (variant for comparison: deliverTrackedFrame returns without waiting)
TrackerNeverWaits == FALSE

\* loop condition of the wait on mappedFrameSignal
TrackerMustWait ==
  refFrameID[coarseTracker_forNewKF] = -1 /\ refFrameID[coarseTracker] = -1

\* (variant for comparison: a prepared keyframe is never looked for)
PreparedKFIgnored == FALSE

AlreadyPreparedKF ==
  setting_useIMU /\ preparedKeyframe # -1 /\ ~linearizeOperation

\* first block of deliverTrackedFrame: prepareKeyframe for the frame?
DoPrepare(needKF) ==
  /\ (needKF \/ (~secondKeyframeDone /\ ~linearizeOperation))
  /\ setting_useIMU
  /\ ~AlreadyPreparedKF

\* (variant for comparison: the calling thread always maps)
MapsInlineAlways == TRUE

\* if(linearizeOperation) of deliverTrackedFrame: the calling thread maps
\* the frame itself instead of handing it to the mapping thread
MapsInline == linearizeOperation

\* deliverTrackedFrame with linearizeOperation: the calling thread maps
DeliverLinearized ==
  /\ Alive
  /\ pc["tracker"] = "deliver"
  /\ MapsInline
  /\ LET id == fh["tracker"]
         needKF == local.needKF
         prep == DoPrepare(needKF)
     IN /\ preparedKeyframe' = IF prep THEN id ELSE preparedKeyframe
        /\ preparedKFCreated' =
             IF needKF /\ setting_useIMU THEN TRUE
             ELSE IF prep THEN FALSE ELSE preparedKFCreated
        /\ secondKeyframeDone' =
             IF prep /\ ~needKF THEN TRUE ELSE secondKeyframeDone
        /\ pc' = [pc EXCEPT !["tracker"] =
                              IF needKF THEN "kf_pose" ELSE "nkf_pose"]
  /\ local' = NoLocals
  /\ UNCHANGED <<components, settings, fh, branch, mutex, signalled,
                 trackerState, queueState, windowState, history>>

\* deliverTrackedFrame in threaded mode: prepare, enqueue under
\* trackMapSyncMutex, re-promotion, needNewKFAfter, notify, then wait for a
\* tracking reference
DeliverThreaded ==
  /\ Alive
  /\ pc["tracker"] = "deliver"
  /\ ~MapsInline
  /\ Free("trackMapSyncMutex")
  /\ LET id == fh["tracker"]
         needKF == local.needKF
         prep == DoPrepare(needKF)
         created1 == IF prep THEN FALSE ELSE preparedKFCreated
         promote == AlreadyPreparedKF /\ ~created1
         prepared2 == IF prep \/ promote THEN id ELSE preparedKeyframe
         needKF2 == needKF \/ promote
     IN /\ unmappedTrackedFrames' =
             PushBack(unmappedTrackedFrames, id)
        /\ preparedKeyframe' = prepared2
        /\ preparedKFCreated' = IF promote THEN FALSE ELSE created1
        /\ secondKeyframeDone' =
             IF prep /\ ~needKF THEN TRUE ELSE secondKeyframeDone
        /\ needNewKFAfter' =
             IF needKF2
             THEN (IF setting_useIMU THEN prepared2
                   ELSE local.trackingRef)
             ELSE needNewKFAfter
        /\ IF TrackerMustWait
           THEN /\ pc' = [pc EXCEPT !["tracker"] = "wait"]
                /\ signalled' = [NotifyAll(signalled, "mapper")
                                   EXCEPT !["tracker"] = FALSE]
           ELSE /\ pc' = [pc EXCEPT !["tracker"] = "idle"]
                /\ signalled' = NotifyAll(signalled, "mapper")
  /\ wanted' = IF local.needKF THEN wanted \cup {fh["tracker"]} ELSE wanted
  /\ fh' = [fh EXCEPT !["tracker"] = NoFrame]
  /\ local' = NoLocals
  /\ UNCHANGED <<components, settings, branch, mutex, trackerState,
                 needToKetchupMapping, runMapping, windowState, job, popped,
                 kfRequested, writers, optimized, traced, drained>>

\* mappedFrameSignal.wait returns: re-check the loop condition under the lock
TrackerWakeup ==
  /\ Alive
  /\ pc["tracker"] = "wait"
  /\ signalled["tracker"]
  /\ Free("trackMapSyncMutex")
  /\ signalled' = [signalled EXCEPT !["tracker"] = FALSE]
  /\ IF TrackerMustWait
     THEN UNCHANGED pc
     ELSE pc' = [pc EXCEPT !["tracker"] = "idle"]
  /\ UNCHANGED <<components, settings, fh, local, branch, mutex, trackerState,
                 imuState, queueState, windowState, history>>

\* a condition-variable wait may return without a notification
SpuriousWakeup(t) ==
  /\ Alive
  /\ pc[t] = "wait"
  /\ ~signalled[t]
  /\ signalled' = [signalled EXCEPT ![t] = TRUE]
  /\ UNCHANGED <<components, settings, pc, fh, local, branch, mutex,
                 trackerState, imuState, queueState, windowState, history>>

\* ------------------------------------------------------------ shutdown
\* (variant for comparison: runMapping is cleared without a notification)
ShutdownSilent(sig) == sig

\* trackedFrameSignal.notify_all() of blockUntilMappingIsFinished
ShutdownSignal(sig) == NotifyAll(sig, "mapper")

\* blockUntilMappingIsFinished up to the join
BlockUntilMappingIsFinished ==
  /\ Alive
  /\ pc["tracker"] = "idle"
  /\ Free("trackMapSyncMutex")
  /\ runMapping' = FALSE
  /\ signalled' = ShutdownSignal(signalled)
  /\ pc' = [pc EXCEPT !["tracker"] = "join"]
  /\ UNCHANGED <<components, settings, fh, local, branch, mutex, trackerState,
                 imuState, unmappedTrackedFrames, needNewKFAfter,
                 needToKetchupMapping, windowState, history>>

\* mappingThread.join() returns
JoinMappingThread ==
  /\ Alive
  /\ pc["tracker"] = "join"
  /\ pc["mapper"] = "done"
  /\ pc' = [pc EXCEPT !["tracker"] = "joined"]
  /\ UNCHANGED <<components, settings, fh, local, branch, mutex, signalled,
                 trackerState, imuState, queueState, windowState, history>>

\* --------------------------------------------------------- mappingLoop
\* mappingLoop entry: lock trackMapSyncMutex
MapperStart ==
  /\ Alive
  /\ pc["mapper"] = "start"
  /\ Free("trackMapSyncMutex")
  /\ mutex' = [mutex EXCEPT !["trackMapSyncMutex"] = "mapper"]
  /\ pc' = [pc EXCEPT !["mapper"] = "loop"]
  /\ UNCHANGED <<components, settings, fh, local, branch, signalled,
                 trackerState, imuState, queueState, windowState, history>>

\* while(runMapping) fails: mappingLoop returns
MapperExit ==
  /\ Alive
  /\ pc["mapper"] = "loop"
  /\ ~runMapping
  /\ mutex' = [mutex EXCEPT !["trackMapSyncMutex"] = "free"]
  /\ pc' = [pc EXCEPT !["mapper"] = "done"]
  /\ UNCHANGED <<components, settings, fh, local, branch, signalled,
                 trackerState, imuState, queueState, windowState, history>>

\* empty queue: trackedFrameSignal.wait(lock)
MapperWait ==
  /\ Alive
  /\ pc["mapper"] = "loop"
  /\ runMapping
  /\ unmappedTrackedFrames = <<>>
  /\ mutex' = [mutex EXCEPT !["trackMapSyncMutex"] = "free"]
  /\ signalled' = [signalled EXCEPT !["mapper"] = FALSE]
  /\ pc' = [pc EXCEPT !["mapper"] = "wait"]
  /\ UNCHANGED <<components, settings, fh, local, branch, trackerState,
                 imuState, queueState, windowState, history>>

\* what the mapper does when trackedFrameSignal.wait returns
\* (if(!runMapping) return; else the queue is looked at again)
AfterTrackedWait == IF ~runMapping THEN "done" ELSE "loop"

MapperWakeup ==
  /\ Alive
  /\ pc["mapper"] = "wait"
  /\ signalled["mapper"]
  /\ Free("trackMapSyncMutex")
  /\ signalled' = [signalled EXCEPT !["mapper"] = FALSE]
  /\ pc' = [pc EXCEPT !["mapper"] = AfterTrackedWait]
  /\ mutex' = [mutex EXCEPT !["trackMapSyncMutex"] =
                 IF AfterTrackedWait = "done" THEN "free" ELSE "mapper"]
  /\ UNCHANGED <<components, settings, fh, local, branch, trackerState,
                 imuState, queueState, windowState, history>>

\* unmappedTrackedFrames.front() / pop_front()
Front(q) == Head(q)
PopFront(q) == Tail(q)

\* (variant for comparison: only one forced keyframe)
ForceOneKeyframe == Len(allKeyFramesHistory) <= 1

\* "guaranteed to make a KF for the very first two tracked frames"
ForceKeyframe == Len(allKeyFramesHistory) <= 2

\* (variant for comparison: catching up starts one frame later)
QueueOverrunLate(q) == Len(q) > 4

\* needToKetchupMapping is raised when this holds after the pop
QueueOverrun(q) == Len(q) > 3

\* (variant for comparison: waiting frames are not looked at)
MapOthersNever(q) == FALSE

\* other frames are waiting: map this one as a non-keyframe
MapOthersFirst(q) == Len(q) > 0

\* (variant for comparison: every frame mapped alone becomes a keyframe)
CreateKFAlways(id) == TRUE

\* (variant for comparison: a request is honoured whatever keyframe it was
\* made against)
CreateKFOnStaleRequest(id) ==
  IF setting_useIMU THEN needNewKFAfter = id
  ELSE needNewKFAfter >= 0

\* createKF of mappingLoop
CreateKF(id) ==
  IF setting_useIMU THEN needNewKFAfter = id
  ELSE needNewKFAfter >= backShellId

\* one iteration of mappingLoop up to the call of makeKeyFrame or
\* makeNonKeyFrame: pop the front frame and decide what to do with it
MapperPop ==
  /\ Alive
  /\ pc["mapper"] = "loop"
  /\ runMapping
  /\ unmappedTrackedFrames # <<>>
  /\ LET f == Front(unmappedTrackedFrames)
         q == PopFront(unmappedTrackedFrames)
         skipped == /\ ~ForceKeyframe /\ MapOthersFirst(q)
                    /\ setting_useIMU /\ needNewKFAfter = f
         kf == \/ ForceKeyframe
               \/ (~MapOthersFirst(q)
                     /\ (setting_realTimeMaxKF \/ CreateKF(f)))
         br == IF ForceKeyframe THEN "forced"
               ELSE IF MapOthersFirst(q) THEN "other"
               ELSE IF kf THEN "create" ELSE "else"
     IN /\ unmappedTrackedFrames' = q
        /\ needToKetchupMapping' =
             IF ~ForceKeyframe /\ QueueOverrun(q) THEN TRUE
             ELSE needToKetchupMapping
        /\ preparedKFCreated' =
             IF kf THEN KeyframeCreated(f) ELSE preparedKFCreated
        /\ fh' = [fh EXCEPT !["mapper"] = f]
        /\ branch' = br
        /\ job' = [frame |-> f, kind |-> IF kf THEN "KF" ELSE "NonKF",
                   forced |-> ForceKeyframe, depth |-> Len(q),
                   own |-> f \in wanted, prev |-> job.frame]
        /\ wanted' = wanted \ {f}
        /\ popped' = IF popped < 3 THEN popped + 1 ELSE popped
        /\ \E abort \in (IF skipped THEN BOOLEAN ELSE {FALSE}) :
             IF abort   \* assert(false) after skipPreparedKeyframe
             THEN /\ pc' = [pc EXCEPT !["mapper"] = "aborted"]
                  /\ UNCHANGED mutex
             ELSE /\ pc' = [pc EXCEPT !["mapper"] =
                                   IF kf THEN "kf_pose" ELSE "nkf_pose"]
                  /\ mutex' = [mutex EXCEPT !["trackMapSyncMutex"] = "free"]
  /\ UNCHANGED <<components, settings, local, signalled, trackerState,
                 preparedKeyframe, secondKeyframeDone, needNewKFAfter,
                 runMapping, windowState, kfRequested, writers, optimized,
                 traced, drained>>

\* ---------------------------------------- makeKeyFrame / makeNonKeyFrame
\* where a thread continues after make(Non)KeyFrame returns
ReturnPc(t) == IF t = "mapper" THEN "relock" ELSE "idle"

\* makeNonKeyFrame, and makeKeyFrame up to traceNewCoarse: the frame's pose
\* is set from its tracking reference under shellPoseMutex, then
\* traceNewCoarse runs under mapMutex; makeNonKeyFrame then deletes the
\* frame and returns
TraceNewCoarse(t) ==
  /\ Alive
  /\ pc[t] \in {"kf_pose", "nkf_pose"}
  /\ Free("shellPoseMutex")
  /\ Free("mapMutex")
  /\ traced' = fh[t]
  /\ pc' = [pc EXCEPT ![t] = IF pc[t] = "kf_pose" THEN "kf_insert"
                                                  ELSE ReturnPc(t)]
  /\ fh' = [fh EXCEPT ![t] = IF pc[t] = "nkf_pose" /\ t = "tracker"
                             THEN NoFrame ELSE fh[t]]
  /\ UNCHANGED <<components, settings, local, branch, mutex, signalled,
                 trackerState, imuState, queueState, windowState, job, popped,
                 kfRequested, writers, optimized, drained, wanted>>

\* marginalizeFrame(frame): the frame leaves frameHessians, the others keep
\* their order
MarginalizeFrame(window, frame) == RemoveAll(window, {frame})

\* the loop over frameHessians at the end of makeKeyFrame, from index i on
\* (i counts from 0): after a marginalisation i is set to 0 and the loop
\* increments it, so that the loop goes on at index 1
RECURSIVE MarginalizeLoop(_, _, _)
MarginalizeLoop(window, out, i) ==
  IF i >= Len(window) THEN window
  ELSE IF window[i + 1] \in out
  THEN MarginalizeLoop(MarginalizeFrame(window, window[i + 1]), out, 1)
  ELSE MarginalizeLoop(window, out, i + 1)

\* the window after the loop, for the set of flagged frames
MarginalizeFrames(window, out) == MarginalizeLoop(window, out, 0)

\* flagFramesForMarginalization: once the window holds MaxWindow
\* keyframes its oldest frame is flagged before the new keyframe is appended
\* (the pipeline reads only the length and the newest frame of the window)
FlagChoices ==
  IF Len(frameHessians) >= MaxWindow
  THEN {{Head(frameHessians)}}
  ELSE {{}}

\* makeKeyFrame: lock mapMutex, flag frames, append the keyframe to the
\* window and the keyframe history, add residuals, activate points
MakeKeyFrameInsert(t) ==
  /\ Alive
  /\ pc[t] = "kf_insert"
  /\ Free("mapMutex")
  /\ mutex' = [mutex EXCEPT !["mapMutex"] = t]
  /\ \E fl \in FlagChoices : flagged' = fl
  /\ frameHessians' = Append(frameHessians, Len(allKeyFramesHistory))
  /\ backShellId' = fh[t]
  /\ allKeyFramesHistory' =
       Append(allKeyFramesHistory, Len(allKeyFramesHistory))
  /\ writers' = writers \cup {[thread |-> t, op |-> "makeKeyFrame"]}
  /\ pc' = [pc EXCEPT ![t] = "kf_optimize"]
  /\ UNCHANGED <<components, settings, fh, local, branch, signalled,
                 trackerState, imuState, queueState, refFrameID, job, popped,
                 kfRequested, optimized, traced, drained, wanted>>

\* makeKeyFrame: optimize, removeOutliers
MakeKeyFrameOptimize(t) ==
  /\ Alive
  /\ pc[t] = "kf_optimize"
  /\ optimized' = fh[t]
  /\ pc' = [pc EXCEPT ![t] = "kf_setref"]
  /\ UNCHANGED <<components, settings, fh, local, branch, mutex, signalled,
                 trackerState, imuState, queueState, windowState, job, popped,
                 kfRequested, writers, traced, drained, wanted>>

\* CoarseTracker::setCoarseTrackingRef: the newest window frame becomes the
\* reference of the instance c
SetCoarseTrackingRef(c) == [refFrameID EXCEPT ![c] = backShellId]

\* the instance makeKeyFrame installs the new reference into
RefTarget == coarseTracker_forNewKF

\* makeKeyFrame: new tracking reference under coarseTrackerSwapMutex
MakeKeyFrameSetRef(t) ==
  /\ Alive
  /\ pc[t] = "kf_setref"
  /\ Free("coarseTrackerSwapMutex")
  /\ refFrameID' = SetCoarseTrackingRef(RefTarget)
  /\ pc' = [pc EXCEPT ![t] = "kf_finish"]
  /\ UNCHANGED <<components, settings, fh, local, branch, mutex, signalled,
                 trackerState, imuState, queueState, frameHessians,
                 backShellId, allKeyFramesHistory, flagged, history>>

\* makeKeyFrame: point removal, new immature points, marginalisation of the
\* flagged frames; mapMutex is released on return
MakeKeyFrameFinish(t) ==
  /\ Alive
  /\ pc[t] = "kf_finish"
  /\ frameHessians' = MarginalizeFrames(frameHessians, flagged)
  /\ flagged' = {f \in flagged :
                  \E k \in 1..Len(frameHessians') : frameHessians'[k] = f}
  /\ mutex' = [mutex EXCEPT !["mapMutex"] = "free"]
  /\ pc' = [pc EXCEPT ![t] = ReturnPc(t)]
  /\ fh' = [fh EXCEPT ![t] = IF t = "tracker" THEN NoFrame ELSE fh[t]]
  /\ UNCHANGED <<components, settings, local, branch, signalled, trackerState,
                 imuState, queueState, backShellId, allKeyFramesHistory,
                 refFrameID, history>>

\* mappingLoop after makeKeyFrame: needToKetchupMapping=false on the
\* createKF path, lock, notify mappedFrameSignal
MapperAfterKeyFrame ==
  /\ Alive
  /\ pc["mapper"] = "relock"
  /\ branch \in {"forced", "create"}
  /\ Free("trackMapSyncMutex")
  /\ mutex' = [mutex EXCEPT !["trackMapSyncMutex"] = "mapper"]
  /\ needToKetchupMapping' =
       IF branch = "create" THEN FALSE ELSE needToKetchupMapping
  /\ signalled' = NotifyAll(signalled, "tracker")
  /\ pc' = [pc EXCEPT !["mapper"] = "loop"]
  /\ fh' = [fh EXCEPT !["mapper"] = NoFrame]
  /\ branch' = "none"
  /\ job' = [NoJob EXCEPT !.frame = job.frame]
  /\ UNCHANGED <<components, settings, local, trackerState, imuState,
                 unmappedTrackedFrames, needNewKFAfter, runMapping,
                 windowState, popped, kfRequested, writers, optimized,
                 traced, drained, wanted>>

\* the catch-up drain is taken when this holds after makeNonKeyFrame
DrainNeeded == needToKetchupMapping /\ Len(unmappedTrackedFrames) > 0

\* mappingLoop after makeNonKeyFrame: lock, on the "other frames first" path
\* drain one more frame when catching up (only its pose is set, then it is
\* deleted), notify mappedFrameSignal
MapperAfterNonKeyFrame ==
  /\ Alive
  /\ pc["mapper"] = "relock"
  /\ branch \in {"other", "else"}
  /\ Free("trackMapSyncMutex")
  /\ mutex' = [mutex EXCEPT !["trackMapSyncMutex"] = "mapper"]
  /\ IF branch = "other" /\ DrainNeeded
     THEN /\ Free("shellPoseMutex")
          /\ unmappedTrackedFrames' = PopFront(unmappedTrackedFrames)
          /\ drained' = Front(unmappedTrackedFrames)
          /\ wanted' = wanted \ {Front(unmappedTrackedFrames)}
     ELSE UNCHANGED <<unmappedTrackedFrames, drained, wanted>>
  /\ signalled' = NotifyAll(signalled, "tracker")
  /\ pc' = [pc EXCEPT !["mapper"] = "loop"]
  /\ fh' = [fh EXCEPT !["mapper"] = NoFrame]
  /\ branch' = "none"
  /\ job' = [NoJob EXCEPT !.frame = job.frame,
                          !.depth = IF branch = "other" /\ DrainNeeded
                                    THEN job.depth ELSE 0]
  /\ UNCHANGED <<components, settings, local, trackerState, imuState,
                 needNewKFAfter, needToKetchupMapping, runMapping,
                 windowState, popped, kfRequested, writers, optimized,
                 traced>>

\* --------------------------------------------- ImmaturePoint::traceOn
\* A float is a finite number, NaN, +Inf or -Inf.
Fin(v) == [k |-> "fin", v |-> v]
NaN == [k |-> "nan", v |-> 0]
PInf == [k |-> "inf", v |-> 1]
NInf == [k |-> "inf", v |-> -1]

\* std::isfinite
IsFinite(x) == x.k = "fin"

\* x < y on floats: false as soon as one side is NaN
FLt(x, y) ==
  /\ x.k # "nan"
  /\ y.k # "nan"
  /\ IF x.k = "fin" /\ y.k = "fin" THEN x.v < y.v
     ELSE IF x.k = "inf" /\ y.k = "inf" THEN x.v < y.v
     ELSE IF x.k = "inf" THEN x.v < 0
     ELSE y.v > 0

ImmaturePointStatus ==
  {"IPS_GOOD", "IPS_OOB", "IPS_OUTLIER", "IPS_SKIPPED", "IPS_BADCONDITION",
   "IPS_UNINITIALIZED"}

\* the point after its constructor (energyTH finite: other points are
\* deleted by their creator); lastTraceUV and lastTracePixelInterval are
\* not assigned by the constructor
ImmaturePoint ==
  [idepth_min |-> Fin(0), idepth_max |-> NaN,
   lastTraceStatus |-> "IPS_UNINITIALIZED", quality |-> Fin(10000),
   lastTraceUV |-> "unassigned", lastTracePixelInterval |-> "unassigned"]

\* what is remembered of the last traceOn call: the status the point had
\* when it was called ("none": never called), the number of steps of the
\* discrete search (0: the call returned before the search), the quality
\* the search computed, whether hostToFrame_Kt was zero and whether the
\* projection at idepth_min was inside the image; whether the end of the
\* search segment was tested and found inside the image, the depth
\* ptpMin[2] of the projection at idepth_min, the test at which the
\* call returned, and the interval the point had when it was called
NoTrace == [prevStatus |-> "none", numSteps |-> 0, newQuality |-> NaN,
            zeroBaseline |-> FALSE, minInImage |-> FALSE,
            maxInImage |-> FALSE, depth |-> 0, stage |-> "none",
            prevMin |-> Fin(0), prevMax |-> NaN]

\* hostToFrame_KRKi * (u, v, 1) of the calls
PrValues == {<<2, 6, 1>>, <<5, 6, 1>>, <<12, 12, 1>>, <<12, 12, 2>>}

\* hostToFrame_Kt of the calls
KtValues == {<<x, y, z>> : x \in {0, 3, 10}, y \in {0}, z \in {0, 1}}

\* boundU = boundV = max(4, extent of the rotated pattern + 2)
BoundValues == {4, 5}

\* intervals the interval update can compute, before the swap
NewIntervals ==
  {<<Fin(0), Fin(1)>>, <<Fin(1), Fin(0)>>, <<Fin(-1), Fin(1)>>,
   <<Fin(-2), Fin(-1)>>, <<Fin(0), PInf>>, <<Fin(0), NInf>>, <<NaN, NaN>>}

\* secondBest / bestEnergy of a search
QualityValues == {Fin(1), Fin(3), Fin(20000), NaN}

\* pr + hostToFrame_Kt * idepth for a finite idepth
Ptp(pr, Kt, idepth) ==
  <<pr[1] + Kt[1] * idepth.v, pr[2] + Kt[2] * idepth.v,
    pr[3] + Kt[3] * idepth.v>>

\* x / z > c and x / z < c in float arithmetic (x / 0 is +Inf, -Inf or NaN)
QuotGt(x, z, c) ==
  IF z > 0 THEN x > c * z ELSE IF z < 0 THEN x < c * z ELSE x > 0

QuotLt(x, z, c) ==
  IF z > 0 THEN x < c * z ELSE IF z < 0 THEN x > c * z ELSE x < 0

\* u > boundU && v > boundV && u < wG[0]-boundU-1 && v < hG[0]-boundV-1 for
\* the pixel (p[1]/p[3], p[2]/p[3])
InImage(p, b) ==
  /\ QuotGt(p[1], p[3], b)
  /\ QuotGt(p[2], p[3], b)
  /\ QuotLt(p[1], p[3], ImageWidth - b - 1)
  /\ QuotLt(p[2], p[3], ImageHeight - b - 1)

\* the projection at idepth is inside the image; with a non-finite idepth
\* every coordinate of the projection is NaN and the test fails
ProjectsInside(pr, Kt, idepth, b) ==
  IsFinite(idepth) /\ InImage(Ptp(pr, Kt, idepth), b)

\* squared distance of the two projections as a fraction <<num, den>>
Dist2(p, q) ==
  <<(p[1] * q[3] - q[1] * p[3]) * (p[1] * q[3] - q[1] * p[3])
      + (p[2] * q[3] - q[2] * p[3]) * (p[2] * q[3] - q[2] * p[3]),
    (p[3] * q[3]) * (p[3] * q[3])>>

\* (variant for comparison: no interval is ever narrow enough to skip)
TooCertainNever(d2) == FALSE

\* dist < setting_trace_slackInterval
TooCertain(d2) ==
  LET slack == setting_trace_slackInterval
  IN d2[1] * slack[2] * slack[2] < slack[1] * slack[1] * d2[2]

\* the search direction of a point without upper bound: the projection
\* moves with the inverse depth unless this vector is zero
EpipolarShift(p, Kt) ==
  <<Kt[1] * p[3] - Kt[3] * p[1], Kt[2] * p[3] - Kt[3] * p[2]>>

\* if(dist > maxPixSearch) dist = maxPixSearch, on the squared distance
CapDist2(d2) ==
  IF d2[1] > MaxPixSearch * MaxPixSearch * d2[2]
  THEN <<MaxPixSearch * MaxPixSearch, 1>> ELSE d2

\* int numSteps = 1.9999f + dist / setting_trace_stepsize (stepsize 1)
NumSteps(d2) ==
  1 + CHOOSE k \in 0..MaxPixSearch :
        /\ k * k * d2[2] >= d2[1]
        /\ k = 0 \/ (k - 1) * (k - 1) * d2[2] < d2[1]

\* (variant for comparison: the quality of every search is kept)
KeepQualityAlways(newQuality, quality, numSteps) == TRUE

\* if(newQuality < quality || numSteps > 10) quality = newQuality
KeepQuality(newQuality, quality, numSteps) ==
  FLt(newQuality, quality) \/ numSteps > 10

\* (variant for comparison: an OOB point is traced like any other)
ShortCircuitNever(p) == FALSE

\* if(lastTraceStatus == IPS_OOB) return lastTraceStatus
ShortCircuit(p) == p.lastTraceStatus = "IPS_OOB"

\* (variant for comparison: a failed energy test is always an outlier)
StrikeOnce(status) == "IPS_OUTLIER"

\* energy test failed: the second failure in a row makes the point OOB
Strike(status) ==
  IF status = "IPS_OUTLIER" THEN "IPS_OOB" ELSE "IPS_OUTLIER"

\* if(idepth_min > idepth_max) std::swap(idepth_min, idepth_max)
Swapped(iv) == IF FLt(iv[2], iv[1]) THEN <<iv[2], iv[1]>> ELSE iv

\* !isfinite(idepth_min) || !isfinite(idepth_max) || idepth_max < 0
IntervalInvalid(lo, hi) ==
  ~IsFinite(lo) \/ ~IsFinite(hi) \/ FLt(hi, Fin(0))

\* (variant for comparison: no change of scale is too big)
ScaleGoodAlways(idepth_min, ptpMin) == idepth_min = idepth_min

\* idepth_min < 0 || (ptpMin[2] > 0.75 && ptpMin[2] < 1.5), for the whole
\* numbers the depth takes in the model
ScaleGood(idepth_min, ptpMin) ==
  FLt(idepth_min, Fin(0)) \/ ptpMin[3] = 1

\* return lastTraceStatus = status, with lastTraceUV = (-1, -1) and
\* lastTracePixelInterval = 0
Lost(p, status) ==
  [p EXCEPT !.lastTraceStatus = status, !.lastTraceUV = "none",
            !.lastTracePixelInterval = "zero"]

\* return with lastTraceUV = middle of the two projections and
\* lastTracePixelInterval = dist
Kept(p, status) ==
  [p EXCEPT !.lastTraceStatus = status, !.lastTraceUV = "middle",
            !.lastTracePixelInterval = "dist"]

\* traceOn from the discrete search on: quality, Gauss-Newton refinement,
\* energy test, new interval; d2 is the squared length of the search
\* segment, errNaN tells whether errorInPixel is NaN
TraceSearch(p, d2, errNaN, logged) ==
  LET n == NumSteps(CapDist2(d2))
  IN \E newQuality \in QualityValues, gnLeavesImage \in BOOLEAN,
        energyGood \in BOOLEAN :
       LET q == [p EXCEPT !.quality =
                   IF KeepQuality(newQuality, p.quality, n)
                   THEN newQuality ELSE p.quality]
       IN /\ traceLog' =
               [logged EXCEPT
                  !.numSteps = n,
                  !.newQuality = newQuality,
                  !.stage = IF gnLeavesImage THEN "refinement"
                            ELSE IF ~energyGood THEN "energy"
                            ELSE "interval"]
          /\ IF gnLeavesImage
             THEN point' = Lost(q, "IPS_OOB")
             ELSE IF ~energyGood
             THEN point' = Lost(q, Strike(p.lastTraceStatus))
             ELSE \E raw \in (IF errNaN THEN {<<NaN, NaN>>}
                                        ELSE NewIntervals) :
                    LET iv == Swapped(raw)
                        r == [q EXCEPT !.idepth_min = iv[1],
                                       !.idepth_max = iv[2]]
                    IN IF IntervalInvalid(iv[1], iv[2])
                       THEN point' = Lost(r, "IPS_OUTLIER")
                       ELSE point' =
                              [r EXCEPT !.lastTraceStatus = "IPS_GOOD",
                                        !.lastTraceUV = "best",
                                        !.lastTracePixelInterval =
                                          "2*errorInPixel"]

\* ImmaturePoint::traceOn for one target frame: pr and Kt are the
\* transform of the call, b the image border; the image dependent results
\* are drawn inside
TraceOn ==
  /\ UNCHANGED <<pipeline, mapState, trackState, kfState, margState,
                 actState, removalState, lockState>>
  /\ \E pr \in PrValues, Kt \in KtValues, b \in BoundValues :
       LET p == point
           minInside == ProjectsInside(pr, Kt, p.idepth_min, b)
           ptpMin == Ptp(pr, Kt, p.idepth_min)
           scaleGood == ScaleGood(p.idepth_min, ptpMin)
           logged == [prevStatus |-> p.lastTraceStatus, numSteps |-> 0,
                      newQuality |-> NaN,
                      zeroBaseline |-> (Kt = <<0, 0, 0>>),
                      minInImage |-> minInside,
                      maxInImage |-> FALSE,
                      depth |-> ptpMin[3],
                      stage |-> "entry",
                      prevMin |-> p.idepth_min,
                      prevMax |-> p.idepth_max]
           at(stage, maxInside) ==
             [logged EXCEPT !.stage = stage, !.maxInImage = maxInside]
       IN IF ShortCircuit(p)
          THEN point' = p /\ traceLog' = logged
          ELSE IF ~minInside
          THEN /\ point' = Lost(p, "IPS_OOB")
               /\ traceLog' = at("border", FALSE)
          ELSE IF IsFinite(p.idepth_max)
          THEN LET ptpMax == Ptp(pr, Kt, p.idepth_max)
                   d2 == Dist2(ptpMin, ptpMax)
               IN IF ~InImage(ptpMax, b)
                  THEN /\ point' = Lost(p, "IPS_OOB")
                       /\ traceLog' = at("border", FALSE)
                  ELSE IF TooCertain(d2)
                  THEN /\ point' = Kept(p, "IPS_SKIPPED")
                       /\ traceLog' = at("distance", TRUE)
                  ELSE IF ~scaleGood
                  THEN /\ point' = Lost(p, "IPS_OOB")
                       /\ traceLog' = at("scale", TRUE)
                  ELSE \E err \in {"fine", "coarse", "nan"} :
                         IF err = "coarse"
                         THEN /\ point' = Kept(p, "IPS_BADCONDITION")
                              /\ traceLog' = at("condition", TRUE)
                         ELSE IF d2[1] = 0
                         THEN /\ point' = Lost(p, "IPS_OOB")
                              /\ traceLog' = at("direction", TRUE)
                         ELSE TraceSearch(p, d2, err = "nan",
                                          at("search", TRUE))
          ELSE \E maxInside \in BOOLEAN :
                 IF EpipolarShift(ptpMin, Kt) = <<0, 0>> \/ ~maxInside
                 THEN /\ point' = Lost(p, "IPS_OOB")
                      /\ traceLog' = at("border", FALSE)
                 ELSE IF ~scaleGood
                 THEN /\ point' = Lost(p, "IPS_OOB")
                      /\ traceLog' = at("scale", TRUE)
                 ELSE \E errNaN \in BOOLEAN :
                        TraceSearch(p, <<MaxPixSearch * MaxPixSearch, 1>>,
                                    errNaN, at("search", TRUE))

\* ------------------------- the keyframe window: points and residuals
\* The window part of initializeFromInitializer and makeKeyFrame, in the
\* order makeKeyFrame runs it under mapMutex.  A point is <<host, k>>: the
\* k-th pixel selected on the keyframe host.  The pixel selector, the
\* optimiser and the marginalisation are represented by their outcomes.

\* ef->nPoints: the number of points the backend holds, up to twice the
\* desired density
NPointsValues == 0..(2 * setting_desiredPointDensity)

\* FullSystem::FullSystem: empty window, currentMinActDist = 2 (in tenths)
WindowConstructed ==
  [pc |-> "idle",
   frameHessians |-> <<>>,
   flaggedForMarginalization |-> {},
   allKeyFramesHistory |-> 0,
   pointHessians |-> {},
   immaturePoints |-> {},
   residuals |-> EmptyBag,
   currentMinActDist |-> 20,
   limit |-> "none"]

\* the frames of a window
WindowFrames(w) == {w[i] : i \in 1..Len(w)}

\* host->pointHessians
PointHessiansOf(m, host) == {p \in m.pointHessians : p[1] = host}

\* (variant for comparison: the residual points back at the host)
PointFrameResidualToHost(p, host, target) ==
  [point |-> p, host |-> host, target |-> host, state |-> "IN",
   efResidual |-> TRUE]

\* new PointFrameResidual(point, host, target); setState(ResState::IN);
\* residuals.push_back(r); ef->insertResidual(r)
PointFrameResidual(p, host, target) ==
  [point |-> p, host |-> host, target |-> target, state |-> "IN",
   efResidual |-> TRUE]

\* the residuals that remain when the points in gone and the residuals
\* towards the frames in out are removed
KeptResiduals(B, gone, out) ==
  [r \in {x \in BagToSet(B) : x.point \notin gone /\ x.target \notin out}
     |-> CopiesIn(r, B)]

\* initializeFromInitializer: firstFrame enters the window with a random
\* subset of the initialiser's points as active points, without residuals
WindowInitialize ==
  /\ mapState.pc = "idle"
  /\ mapState.allKeyFramesHistory = 0
  /\ \E kept \in SUBSET (1..MaxPointsPerFrame) :
       mapState' =
         [mapState EXCEPT
            !.frameHessians = Append(@, mapState.allKeyFramesHistory),
            !.allKeyFramesHistory = @ + 1,
            !.pointHessians = {<<mapState.allKeyFramesHistory, k>> :
                                 k \in kept}]
  /\ UNCHANGED <<pipeline, traceState, trackState, kfState, margState,
                 actState, removalState, lockState>>

\* flagFramesForMarginalization: a full window gives up one of its frames
WindowFlagChoices(w) ==
  IF Len(w) >= MaxWindow THEN {{f} : f \in WindowFrames(w)} ELSE {{}}

\* the residuals makeKeyFrame creates for the new keyframe: the loop over
\* the window skips the new frame and takes every active point of the
\* others
NewResiduals(m, window, new) ==
  {PointFrameResidual(p, host, new) :
     <<host, p>> \in {hp \in WindowFrames(window) \X m.pointHessians :
                        hp[1] # new /\ hp[2] \in PointHessiansOf(m, hp[1])}}

\* makeKeyFrame: flag frames, append the keyframe, add a residual towards
\* it for the active points of the other frames
WindowInsertFrame ==
  /\ mapState.pc = "idle"
  /\ mapState.allKeyFramesHistory \in 1..(MaxKeyFrames - 1)
  /\ \E fl \in WindowFlagChoices(mapState.frameHessians) :
       LET new == mapState.allKeyFramesHistory
           window == Append(mapState.frameHessians, new)
       IN mapState' =
            [mapState EXCEPT
               !.pc = "inserted",
               !.flaggedForMarginalization = fl,
               !.frameHessians = window,
               !.allKeyFramesHistory = @ + 1,
               !.residuals =
                  @ (+) SetToBag(NewResiduals(mapState, window, new))]
  /\ UNCHANGED <<pipeline, traceState, trackState, kfState, margState,
                 actState, removalState, lockState>>

\* activatePointsMT: the change of currentMinActDist for a backend holding
\* n points, in tenths
Adjusted(dist, n) ==
  LET D == setting_desiredPointDensity
      lower == (IF 100 * n < 66 * D THEN 8 ELSE 0)
               + (IF 10 * n < 8 * D THEN 5
                  ELSE IF 10 * n < 9 * D THEN 2
                  ELSE IF n < D THEN 1 ELSE 0)
      upper == (IF 10 * n > 15 * D THEN 8 ELSE 0)
               + (IF 10 * n > 13 * D THEN 5 ELSE 0)
               + (IF 100 * n > 115 * D THEN 2 ELSE 0)
               + (IF n > D THEN 1 ELSE 0)
  IN dist - lower + upper

\* (variant for comparison: only the lower limit is enforced)
SaturatedBelow(dist) == IF dist < 0 THEN 0 ELSE dist

\* if(currentMinActDist < 0) ... = 0; if(currentMinActDist > 4) ... = 4
Saturated(dist) == IF dist < 0 THEN 0 ELSE IF dist > 40 THEN 40 ELSE dist

\* history: which of the two limits the last call ran into
LimitOf(dist) ==
  IF dist < 0 THEN "lower" ELSE IF dist > 40 THEN "upper" ELSE "none"

\* activatePointsMT, first part: currentMinActDist follows ef->nPoints
ActivateAdjust ==
  /\ mapState.pc = "inserted"
  /\ \E n \in NPointsValues :
       mapState' =
         [mapState EXCEPT
            !.pc = "adjusted",
            !.limit = LimitOf(Adjusted(mapState.currentMinActDist, n)),
            !.currentMinActDist =
               Saturated(Adjusted(mapState.currentMinActDist, n))]
  /\ UNCHANGED <<pipeline, traceState, trackState, kfState, margState,
                 actState, removalState, lockState>>

\* optimizeImmaturePoint: the residuals of a point that becomes active
ActivatedResiduals(m, p) ==
  {PointFrameResidual(p, p[1], target) :
     target \in WindowFrames(m.frameHessians) \ {p[1]}}

\* activatePointsMT, second part: every immature point of the frames other
\* than the newest is deleted, left in place or made active
ActivatePoints ==
  /\ mapState.pc = "adjusted"
  /\ LET latest == Last(mapState.frameHessians)
         candidates == {p \in mapState.immaturePoints : p[1] # latest}
     IN \E outcome \in [candidates -> {"delete", "keep", "activate"}] :
          LET gone == {p \in candidates : outcome[p] # "keep"}
              active == {p \in candidates : outcome[p] = "activate"}
          IN mapState' =
               [mapState EXCEPT
                  !.pc = "activated",
                  !.immaturePoints = @ \ gone,
                  !.pointHessians = @ \cup active,
                  !.residuals =
                     @ (+) SetToBag(UNION {ActivatedResiduals(mapState, p) :
                                             p \in active})]
  /\ UNCHANGED <<pipeline, traceState, trackState, kfState, margState,
                 actState, removalState, lockState>>

\* makeKeyFrame: optimize and removeOutliers; removeOutliers takes any of
\* the points out of the window, with their residuals
WindowOptimize ==
  /\ mapState.pc = "activated"
  /\ \E outliers \in SUBSET mapState.pointHessians :
       mapState' =
         [mapState EXCEPT
            !.pc = "optimized",
            !.pointHessians = @ \ outliers,
            !.residuals = KeptResiduals(@, outliers, {})]
  /\ UNCHANGED <<pipeline, traceState, trackState, kfState, margState,
                 actState, removalState, lockState>>

\* (variant for comparison: the points of a flagged frame are not
\* singled out)
PointsOfNoFrame(m) == {p \in m.pointHessians : FALSE}

\* the active points flagPointsForRemoval removes because their host is
\* flagged for marginalisation
PointsOfFlagged(m) ==
  {p \in m.pointHessians : p[1] \in m.flaggedForMarginalization}

\* makeKeyFrame: flagPointsForRemoval, ef->dropPointsF and
\* ef->marginalizePointsF take the points of the flagged frames and any of
\* the others out of the window, with their residuals
WindowRemovePoints ==
  /\ mapState.pc = "optimized"
  /\ LET leaving == PointsOfFlagged(mapState)
     IN \E others \in SUBSET (mapState.pointHessians \ leaving) :
          mapState' =
            [mapState EXCEPT
               !.pc = "removed",
               !.pointHessians = @ \ (leaving \cup others),
               !.residuals = KeptResiduals(@, leaving \cup others, {})]
  /\ UNCHANGED <<pipeline, traceState, trackState, kfState, margState,
                 actState, removalState, lockState>>

\* makeKeyFrame: makeNewPoints selects immature points on the new keyframe
WindowMakeNewPoints ==
  /\ mapState.pc = "removed"
  /\ \E selected \in SUBSET (1..MaxPointsPerFrame) :
       mapState' =
         [mapState EXCEPT
            !.pc = "selected",
            !.immaturePoints =
               @ \cup {<<Last(mapState.frameHessians), k>> : k \in selected}]
  /\ UNCHANGED <<pipeline, traceState, trackState, kfState, margState,
                 actState, removalState, lockState>>

\* makeKeyFrame: marginalizeFrame for every flagged frame; the frame
\* leaves the window with its immature points and the residuals towards it
WindowMarginalizeFrames ==
  /\ mapState.pc = "selected"
  /\ LET left == MarginalizeFrames(mapState.frameHessians,
                                    mapState.flaggedForMarginalization)
         out == mapState.flaggedForMarginalization \ WindowFrames(left)
     IN mapState' =
          [mapState EXCEPT
             !.pc = "idle",
             !.frameHessians = left,
             !.flaggedForMarginalization = @ \ out,
             !.immaturePoints = {p \in @ : p[1] \notin out},
             !.residuals = KeptResiduals(@, {}, out)]
  /\ UNCHANGED <<pipeline, traceState, trackState, kfState, margState,
                 actState, removalState, lockState>>

WindowNext ==
  \/ WindowInitialize
  \/ WindowInsertFrame
  \/ ActivateAdjust
  \/ ActivatePoints
  \/ WindowOptimize
  \/ WindowRemovePoints
  \/ WindowMakeNewPoints
  \/ WindowMarginalizeFrames

\* ------------------------------------------- trackNewCoarse: the seeds
\* One call of trackNewCoarse after the other: the list of start poses,
\* the loop over it and the part after the loop.  A start pose is
\* represented by the name of the hypothesis it stands for; of the
\* residuals only level 0 is followed, which is the one the loop tests.

\* the outcomes of CoarseTracker::trackNewestCoarse: lastResiduals[0]
ResidualValues == {Fin(1), Fin(2), Fin(4), NaN}

\* allFrameHistory.size() when trackNewCoarse is called: the two frames of
\* the initialiser and the new one, or more
HistorySizes == {3, 4}

\* x >= y on floats: false as soon as one side is NaN
FGe(x, y) == x.k # "nan" /\ y.k # "nan" /\ ~FLt(x, y)

\* x * k for a positive integer k
FTimes(x, k) == IF IsFinite(x) THEN Fin(x.v * k) ELSE x

\* (variant for comparison: the loop over rotDelta makes a second pass)
MotionSeedsTwice ==
  <<"constant", "double", "half", "zero", "zeroFromKF">>
    \o [k \in 1..52 |-> <<"rotation", k>>]

\* the five motion-model poses and the 26 rotations around constant motion
\* (rotDelta++ ends the loop over rotDelta after its first pass)
MotionSeeds ==
  <<"constant", "double", "half", "zero", "zeroFromKF">>
    \o [k \in 1..26 |-> <<"rotation", k>>]

\* (variant for comparison: the motion model is always consulted)
SeedsAlways(hint, historySize, posesValid) ==
  (IF hint THEN <<"hint">> ELSE <<>>)
    \o (IF historySize = 2 THEN <<>>
        ELSE IF posesValid THEN MotionSeeds ELSE <<"identity">>)

\* lastF_2_fh_tries before the loop
Seeds(hint, historySize, posesValid) ==
  IF hint THEN <<"hint">>
  ELSE IF historySize = 2 THEN <<>>
  ELSE IF posesValid THEN MotionSeeds ELSE <<"identity">>

\* FullSystem::FullSystem: lastCoarseRMSE.setConstant(100)
TrackConstructed ==
  [pc |-> "idle",
   referenceToFrameHint |-> FALSE,
   posesValid |-> TRUE,
   lastF_2_fh_tries |-> <<>>,
   i |-> 0,
   tryIterations |-> 0,
   trackingGoodRet |-> FALSE,
   haveOneGood |-> FALSE,
   achievedRes |-> NaN,
   lastF_2_fh |-> "identity",
   lastCoarseRMSE |-> Fin(100),
   trackingWasGood |-> FALSE,
   tresFinite |-> FALSE,
   result |-> "none"]

\* trackNewCoarse up to the loop; addActiveFrame passes a hint only with
\* setting_useIMU
TrackSeeds ==
  /\ trackState.pc = "idle"
  /\ \E hint \in BOOLEAN, historySize \in HistorySizes,
        posesValid \in BOOLEAN :
       /\ hint => setting_useIMU
       /\ LET tries == Seeds(hint, historySize, posesValid)
          IN trackState' =
               [trackState EXCEPT
                  !.pc = IF Len(tries) = 0 THEN "after" ELSE "loop",
                  !.referenceToFrameHint = hint,
                  !.posesValid = posesValid,
                  !.lastF_2_fh_tries = tries,
                  !.i = 0,
                  !.tryIterations = 0,
                  !.trackingGoodRet = FALSE,
                  !.haveOneGood = FALSE,
                  !.achievedRes = NaN,
                  !.lastF_2_fh = "identity",
                  !.trackingWasGood = FALSE,
                  !.tresFinite = FALSE,
                  !.result = "none"]
  /\ UNCHANGED <<pipeline, traceState, mapState, kfState, margState,
                 actState, removalState, lockState>>

\* do we have a new winner?
NewWinner(trackingIsGood, lastResidual, achievedRes) ==
  /\ trackingIsGood
  /\ IsFinite(lastResidual)
  /\ ~FGe(lastResidual, achievedRes)

\* take over achieved res
TakenOver(achievedRes, lastResidual) ==
  IF ~IsFinite(achievedRes) \/ FLt(lastResidual, achievedRes)
  THEN lastResidual ELSE achievedRes

\* achievedRes[0] < lastCoarseRMSE[0]*setting_reTrackThreshold (1.5)
GoodEnough(achievedRes, lastCoarseRMSE) ==
  FLt(FTimes(achievedRes, 2), FTimes(lastCoarseRMSE, 3))

\* one pass of the loop: trackNewestCoarse on the next start pose
TrackTry ==
  /\ trackState.pc = "loop"
  /\ \E good \in BOOLEAN, lastResidual \in ResidualValues :
       LET seed == trackState.lastF_2_fh_tries[trackState.i + 1]
           trackingIsGood == good \/ setting_useIMU
           winner == NewWinner(trackingIsGood, lastResidual,
                               trackState.achievedRes)
           haveOneGood == trackState.haveOneGood \/ winner
           achievedRes == IF haveOneGood
                          THEN TakenOver(trackState.achievedRes,
                                         lastResidual)
                          ELSE trackState.achievedRes
           leave == \/ haveOneGood
                       /\ GoodEnough(achievedRes, trackState.lastCoarseRMSE)
                    \/ trackState.i + 1 >= Len(trackState.lastF_2_fh_tries)
       IN trackState' =
            [trackState EXCEPT
               !.pc = IF leave THEN "after" ELSE "loop",
               !.i = @ + 1,
               !.tryIterations = @ + 1,
               !.trackingGoodRet = @ \/ good,
               !.haveOneGood = haveOneGood,
               !.achievedRes = achievedRes,
               !.lastF_2_fh = IF winner THEN seed ELSE @]
  /\ UNCHANGED <<pipeline, traceState, mapState, kfState, margState,
                 actState, removalState, lockState>>

\* (variant for comparison: a frame without a winner is marked as badly
\* tracked)
WinnerWasGood(trackingGoodRet, haveOneGood) == trackingGoodRet /\ haveOneGood

\* frame_hessian->shell->trackingWasGood = trackingGoodRet
TrackingWasGood(trackingGoodRet, haveOneGood) == trackingGoodRet

\* after the loop: without a winner the first start pose is taken, and the
\* process exits if that pose is unusable; lastCoarseRMSE = achievedRes
TrackFinish ==
  /\ trackState.pc = "after"
  /\ \E unusable \in BOOLEAN :
       /\ unusable => ~trackState.haveOneGood
       /\ trackState' =
            [trackState EXCEPT
               !.pc = IF unusable THEN "exit" ELSE "returned",
               !.trackingWasGood =
                  IF unusable THEN @
                  ELSE TrackingWasGood(trackState.trackingGoodRet,
                                       trackState.haveOneGood),
               !.lastF_2_fh =
                  IF trackState.haveOneGood THEN @
                  ELSE IF Len(trackState.lastF_2_fh_tries) > 0
                  THEN trackState.lastF_2_fh_tries[1]
                  ELSE "indeterminate",
               !.lastCoarseRMSE =
                  IF unusable THEN @ ELSE trackState.achievedRes]
  /\ UNCHANGED <<pipeline, traceState, mapState, kfState, margState,
                 actState, removalState, lockState>>

\* addActiveFrame on the return of trackNewCoarse: tres[0] is
\* achievedRes[0], tres[1..3] are the flow indicators of the winner, or 0
\* without a winner; a result that is not finite is given up on without
\* IMU (isLost, return), and goes on to the keyframe decision with IMU
TrackReturn ==
  /\ trackState.pc = "returned"
  /\ \E flowFinite \in BOOLEAN :
       /\ ~trackState.haveOneGood => flowFinite
       /\ LET finite == IsFinite(trackState.achievedRes) /\ flowFinite
          IN trackState' =
               [trackState EXCEPT
                  !.pc = "idle",
                  !.tresFinite = finite,
                  !.result = IF ~finite /\ ~setting_useIMU
                             THEN "lost" ELSE "decision"]
  /\ UNCHANGED <<pipeline, traceState, mapState, kfState, margState,
                 actState, removalState, lockState>>

TrackNext ==
  \/ TrackSeeds
  \/ TrackTry
  \/ TrackFinish
  \/ TrackReturn

\* --------------------------------- keyframe decision of addActiveFrame
\* setting_minFramesBetweenKeyframes and framesBetweenKFsRest are counted
\* in parts of a frame, Parts to the frame
Parts == 4

\* the largest number of frames between a frame and its reference keyframe
MaxFramesBetween == 2

\* setting_keyframesPerSecond: 0 selects the adaptive mode
KeyframesPerSecondValues == {0, 1}

\* setting_minFramesBetweenKeyframes: none, a whole number of frames, and
\* two broken numbers
MinFramesValues == {0, Parts, Parts + (Parts \div 2), (2 * Parts) - 1}

\* the tests of the two modes: the time since the last keyframe against
\* 0.95/setting_keyframesPerSecond ("rate"), the weighted flow and affine
\* change against 1 ("flow"), tres[0] against twice firstCoarseRMSE
\* ("rmse"), the time since the last keyframe against
\* setting_maxTimeBetweenKeyframes ("cap")
Triggers == {"rate", "flow", "rmse", "cap"}

\* the tests that hold for one frame: none, one alone, all of them, or
\* all but the rate test
TriggerChoices ==
  {{}} \cup {{t} : t \in Triggers} \cup {Triggers, Triggers \ {"rate"}}

\* the state after the constructor, and before any decision
KeyframeConstructed(rate, minFrames) ==
  [setting_keyframesPerSecond |-> rate,
   setting_minFramesBetweenKeyframes |-> minFrames,
   framesBetweenKFsRest |-> 0,
   outcome |-> "none",
   finite |-> TRUE,
   trackingGood |-> TRUE,
   small |-> FALSE,
   holding |-> {},
   forceKF |-> FALSE,
   forceNoKF |-> FALSE,
   wanted |-> FALSE,
   requested |-> FALSE,
   framesBetweenKFs |-> 0,
   restBefore |-> 0,
   needKF |-> FALSE]

\* (variant for comparison: every test counts in both modes)
WantedInAnyMode(rate, historySize, holding, forceKF) ==
  historySize = 1 \/ holding # {} \/ forceKF

\* needToMakeKF before the overrides: the fixed-rate mode looks at the
\* time since the last keyframe only, the adaptive mode at flow, RMSE,
\* the hard cap and forceKF
KeyframeWanted(rate, historySize, holding, forceKF) ==
  IF rate > 0
  THEN historySize = 1 \/ "rate" \in holding
  ELSE \/ historySize = 1
       \/ "flow" \in holding
       \/ "rmse" \in holding
       \/ "cap" \in holding
       \/ forceKF

\* (variant for comparison: the rest is never taken off again)
SpacingWithoutCarry(need, between, minFrames, rest) ==
  [need |-> need /\ between * Parts >= minFrames,
   rest |-> IF need /\ between >= minFrames \div Parts
               /\ between * Parts < minFrames
            THEN rest + (minFrames % Parts) ELSE rest]

\* setting_minFramesBetweenKeyframes is enforced on a wanted keyframe:
\* its integer part always, its fractional part through
\* framesBetweenKFsRest
EnforceSpacing(need, between, minFrames, rest) ==
  LET fractionalPart == minFrames - ((minFrames \div Parts) * Parts)
      grown == rest + fractionalPart
  IN IF ~need THEN [need |-> FALSE, rest |-> rest]
     ELSE IF between < minFrames \div Parts
     THEN [need |-> FALSE, rest |-> rest]
     ELSE IF between * Parts < minFrames
     THEN IF grown >= Parts
          THEN [need |-> FALSE, rest |-> grown - Parts]
          ELSE [need |-> TRUE, rest |-> grown]
     ELSE [need |-> TRUE, rest |-> rest]

\* addActiveFrame on the frame the initialiser succeeds on: the frame is
\* delivered as a keyframe, its reference being the first frame
KeyframeFromInitializer ==
  /\ kfState.outcome = "none"
  /\ \E between \in 0..MaxFramesBetween :
       kfState' = [kfState EXCEPT !.outcome = "initialized",
                                  !.framesBetweenKFs = between,
                                  !.needKF = TRUE]
  /\ UNCHANGED <<pipeline, traceState, mapState, trackState, margState,
                 actState, removalState, lockState>>

\* addActiveFrame on a frame after initialisation, from the return of
\* trackNewCoarse to the call of deliverTrackedFrame
KeyframeDecision ==
  /\ kfState.outcome # "none"
  /\ \E o \in {t \in TrackOutcomes : t.haveOneGood \/ t.poseSane},
        holding \in TriggerChoices,
        small \in (IF setting_useIMU THEN BOOLEAN ELSE {FALSE}),
        between \in 0..MaxFramesBetween :
       \* a test that does not apply cannot hold: the rate test needs a
       \* rate, and no comparison with tres[0] = NaN is true
       /\ "rate" \in holding => kfState.setting_keyframesPerSecond > 0
       /\ "rmse" \in holding => o.haveOneGood
       /\ LET \* allFrameHistory holds the first frame, the frame the
              \* initialiser succeeded on, and this one at least
              historySize == 3
              desired == KeyframeWanted(kfState.setting_keyframesPerSecond,
                                        historySize, holding, ForceKF(o))
              requested == Overridden(ForceNoKF(o, small), desired)
              spaced == EnforceSpacing(
                          requested, between,
                          kfState.setting_minFramesBetweenKeyframes,
                          kfState.framesBetweenKFsRest)
          IN IF TrackingLost(o)
             THEN kfState' = [kfState EXCEPT
                                !.outcome = "lost",
                                !.finite = FALSE,
                                !.trackingGood = o.trackingGoodRet,
                                !.small = FALSE,
                                !.holding = {},
                                !.forceKF = FALSE,
                                !.forceNoKF = ~o.trackingGoodRet,
                                !.wanted = FALSE,
                                !.requested = FALSE,
                                !.framesBetweenKFs = 0,
                                !.restBefore = kfState.framesBetweenKFsRest,
                                !.needKF = FALSE]
             ELSE kfState' = [kfState EXCEPT
                                !.outcome = "delivered",
                                !.finite = TresFinite(o),
                                !.trackingGood = o.trackingGoodRet,
                                !.small = small,
                                !.holding = holding,
                                !.forceKF = ForceKF(o),
                                !.forceNoKF = ForceNoKF(o, small),
                                !.wanted = desired,
                                !.requested = requested,
                                !.framesBetweenKFs = between,
                                !.restBefore = kfState.framesBetweenKFsRest,
                                !.framesBetweenKFsRest = spaced.rest,
                                !.needKF = spaced.need]
  /\ UNCHANGED <<pipeline, traceState, mapState, trackState, margState,
                 actState, removalState, lockState>>

KeyframeNext ==
  \/ KeyframeFromInitializer
  \/ KeyframeDecision

\* ------------------------------- makeKeyFrame: the marginalisation loop
\* the largest window the loop is run on
MaxFlaggedWindow == 6

\* no window yet
NoMarginalization ==
  [pc |-> "none", frameHessians |-> <<>>, flaggedForMarginalization |-> {}]

\* the windows flagFramesForMarginalization can leave: any frames flagged
FlaggedWindows ==
  {[pc |-> "flagged",
    frameHessians |-> [k \in 1..n |-> k],
    flaggedForMarginalization |-> out] :
      n \in 0..MaxFlaggedWindow, out \in SUBSET (1..MaxFlaggedWindow)}

\* the loop over frameHessians at the end of makeKeyFrame
MarginalizeFlagged ==
  /\ margState.pc = "flagged"
  /\ LET left == MarginalizeFrames(margState.frameHessians,
                                   margState.flaggedForMarginalization)
     IN margState' =
          [margState EXCEPT
             !.pc = "done",
             !.frameHessians = left,
             !.flaggedForMarginalization =
                {f \in @ : \E k \in 1..Len(left) : left[k] = f}]
  /\ UNCHANGED <<pipeline, traceState, mapState, trackState, kfState,
                 actState, removalState, lockState>>

\* ------------------------------ activatePointsMT: the immature points
\* the largest number of immature points on the keyframe
MaxImmaturePoints == 3

\* an entry of host->immaturePoints set to nullptr
NullPoint ==
  [id |-> 0, finite |-> FALSE, lastTraceStatus |-> "none", traceOK |-> FALSE]

\* what activatePointsMT reads of an immature point: whether idepth_max is
\* finite, the status of the last trace, and the rest of canActivate
\* (lastTracePixelInterval < 8, quality > setting_minTraceQuality,
\* idepth_max + idepth_min > 0).  IPS_SKIPPED and IPS_BADCONDITION are
\* treated like IPS_GOOD here and left out; a good trace leaves a finite
\* interval, and no sum with a NaN is positive
PointKinds ==
  {k \in [finite : BOOLEAN,
          lastTraceStatus : {"IPS_GOOD", "IPS_OOB", "IPS_OUTLIER",
                             "IPS_UNINITIALIZED"},
          traceOK : BOOLEAN] :
     /\ k.lastTraceStatus = "IPS_GOOD" => k.finite
     /\ k.traceOK => k.finite}

\* the lists of n immature points, the point at index k having id k
ImmatureLists(n) ==
  {[k \in 1..n |-> [id |-> k, finite |-> kinds[k].finite,
                    lastTraceStatus |-> kinds[k].lastTraceStatus,
                    traceOK |-> kinds[k].traceOK]] :
     kinds \in [1..n -> PointKinds]}

\* what happens to a point that can be activated: its projection is
\* outside the new frame, it is too near a point of the distance map, or
\* optimizeImmaturePoint returns a new point, -1 or 0
Fates == {"outside", "near", "point", "failed", "unprocessed"}

\* no call yet
NoActivation ==
  [pc |-> "none", flaggedForMarginalization |-> FALSE, before |-> <<>>,
   immaturePoints |-> <<>>, deleted |-> {}, activated |-> {},
   fates |-> <<>>, residuals |-> <<>>, deletions |-> <<>>,
   pointHessians |-> <<>>,
   efPoints |-> {}, efResiduals |-> {}]

\* (variant for comparison: only the points never traced successfully are
\* dropped)
InvalidIfNotFinite(p) == ~p.finite

\* points that have never been traced successfully, or that are outlier on
\* the last trace
Invalid(p) == ~p.finite \/ p.lastTraceStatus = "IPS_OUTLIER"

\* can activate only if this is true
CanActivate(p) ==
  /\ p.lastTraceStatus \in
       {"IPS_GOOD", "IPS_SKIPPED", "IPS_BADCONDITION", "IPS_OOB"}
  /\ p.traceOK

\* the loop over the immature points of a host: the point is deleted, left
\* in place, or put on toOptimize
FirstPass(p, hostFlagged, fate) ==
  IF Invalid(p) THEN "delete"
  ELSE IF ~CanActivate(p)
  THEN IF hostFlagged \/ p.lastTraceStatus = "IPS_OOB"
       THEN "delete" ELSE "keep"
  ELSE IF fate = "outside" THEN "delete"
  ELSE IF fate = "near" THEN "keep"
  ELSE "optimize"

\* (variant for comparison: only the sentinel of the backend removes a
\* point that was not activated)
SecondPassSentinelOnly(p, fate) ==
  IF fate = "point" THEN "activate"
  ELSE IF fate = "failed" THEN "delete"
  ELSE "keep"

\* the loop over toOptimize: the point becomes active, is deleted, or is
\* left in place
SecondPass(p, fate) ==
  IF fate = "point" THEN "activate"
  ELSE IF fate = "failed" \/ p.lastTraceStatus = "IPS_OOB" THEN "delete"
  ELSE "keep"

\* the last loop, from index i on (i counts from 0): a null entry is
\* overwritten by the last entry, the list is shortened, and the same
\* index is looked at again
RECURSIVE Compact(_, _)
Compact(list, i) ==
  IF i >= Len(list) THEN list
  ELSE IF list[i + 1] = NullPoint
  THEN Compact(SubSeq([list EXCEPT ![i + 1] = Last(list)],
                      1, Len(list) - 1), i)
  ELSE Compact(list, i + 1)

\* the residuals optimizeImmaturePoint gives a new point: one or two
ResidualCounts == 1..2

\* what can be drawn for a point: only a point that can be activated has a
\* fate, and only a new point has residuals
Draws(p) ==
  IF Invalid(p) \/ ~CanActivate(p) THEN {<<"near", 1>>}
  ELSE {<<f, 1>> : f \in Fates} \cup {<<"point", r>> : r \in ResidualCounts}

\* the draws for the points of a list
RECURSIVE DrawsFor(_)
DrawsFor(list) ==
  IF list = <<>> THEN {<<>>}
  ELSE {<<d>> \o rest : d \in Draws(Head(list)),
                        rest \in DrawsFor(Tail(list))}

\* activatePointsMT from the loop over the hosts on, for a host other than
\* the newest keyframe: the first loop deletes points or puts them on
\* toOptimize, the loop over toOptimize takes the results of
\* optimizeImmaturePoint, the last loop removes the null entries.
\* History: fates and residuals are the results drawn for the points,
\* deletions counts the delete expressions executed on each of them
ActivatePointsMT ==
  /\ actState.pc = "traced"
  /\ LET list == actState.immaturePoints
         n == Len(list)
     IN \E draws \in DrawsFor(list) :
          LET fates == [k \in 1..n |-> draws[k][1]]
              nres == [k \in 1..n |-> draws[k][2]]
              first(k) ==
                FirstPass(list[k], actState.flaggedForMarginalization,
                          fates[k])
              queued(k) == first(k) = "optimize"
              toOptimize == SelectSeq([k \in 1..n |-> k], queued)
              second(k) == SecondPass(list[k], fates[k])
              results == {toOptimize[j] : j \in 1..Len(toOptimize)}
              activates(k) == second(k) = "activate"
              newpoints == SelectSeq(toOptimize, activates)
              nulled == {k \in 1..n : first(k) = "delete"}
                          \cup {k \in results : second(k) # "keep"}
          IN actState' =
                  [actState EXCEPT
                     !.pc = "activated",
                     !.fates = fates,
                     !.residuals = nres,
                     !.immaturePoints =
                        Compact([k \in 1..n |->
                                   IF k \in nulled THEN NullPoint
                                   ELSE list[k]], 0),
                     !.deletions =
                        [k \in 1..n |->
                           (IF first(k) = "delete" THEN 1 ELSE 0)
                           + (IF k \in results /\ second(k) # "keep"
                              THEN 1 ELSE 0)],
                     !.deleted = {list[k].id : k \in nulled},
                     !.activated =
                        {list[k].id : k \in
                           {j \in results : second(j) = "activate"}},
                     !.pointHessians =
                        @ \o [j \in 1..Len(newpoints) |->
                                list[newpoints[j]].id],
                     !.efPoints =
                        @ \cup {list[newpoints[j]].id :
                                  j \in 1..Len(newpoints)},
                     !.efResiduals =
                        @ \cup UNION {{<<list[newpoints[j]].id, r>> :
                                         r \in 1..nres[newpoints[j]]} :
                                       j \in 1..Len(newpoints)}]
  /\ UNCHANGED <<pipeline, traceState, mapState, trackState, kfState,
                 margState, removalState, lockState>>

\* ------------------------------ flagPointsForRemoval: the active points
\* the largest number of active points on the keyframe
MaxActivePoints == 2

\* an entry of host->pointHessians set to 0
NullHessian ==
  [id |-> 0, low |-> FALSE, noResiduals |-> FALSE, oob |-> FALSE,
   inlier |-> FALSE, wellConstrained |-> FALSE]

\* what flagPointsForRemoval reads of an active point: idepth_scaled <
\* setting_minIdepth (low), residuals.size() == 0, isOOB, isInlierNew and
\* idepth_hessian > setting_minIdepthH_marg (wellConstrained)
PointHessianKinds ==
  [low : BOOLEAN, noResiduals : BOOLEAN, oob : BOOLEAN, inlier : BOOLEAN,
   wellConstrained : BOOLEAN]

\* the lists of n active points, the point at index k having id k
PointHessianLists(n) ==
  {[k \in 1..n |-> [id |-> k, low |-> kinds[k].low,
                    noResiduals |-> kinds[k].noResiduals,
                    oob |-> kinds[k].oob, inlier |-> kinds[k].inlier,
                    wellConstrained |-> kinds[k].wellConstrained]] :
     kinds \in [1..n -> PointHessianKinds]}

\* no call yet
NoRemoval ==
  [pc |-> "none", flaggedForMarginalization |-> FALSE, before |-> <<>>,
   pointHessians |-> <<>>, pointHessiansMarginalized |-> <<>>,
   pointHessiansOutlier |-> <<>>, stateFlag |-> <<>>]

\* ph->idepth_scaled < setting_minIdepth || ph->residuals.size()==0
Unusable(p) == p.low \/ p.noResiduals

\* (variant for comparison: the flag of the host is not looked at)
LeavingIfOOB(p, hostFlagged) == p.oob

\* ph->isOOB(...) || host->flaggedForMarginalization
Leaving(p, hostFlagged) == p.oob \/ hostFlagged

\* (variant for comparison: the Hessian alone decides)
MarginalizableByHessian(p) == p.wellConstrained

\* a point that leaves is marginalised if it is an inlier and its
\* idepth_hessian exceeds setting_minIdepthH_marg
Marginalizable(p) == p.inlier /\ p.wellConstrained

\* the branch of the loop body taken for a point: the list it is pushed
\* onto and the flag its efPoint gets ("none": the point is not touched)
Branch(p, hostFlagged) ==
  IF Unusable(p)
  THEN [list |-> "pointHessiansOutlier", stateFlag |-> "PS_DROP"]
  ELSE IF Leaving(p, hostFlagged)
  THEN IF Marginalizable(p)
       THEN [list |-> "pointHessiansMarginalized",
             stateFlag |-> "PS_MARGINALIZE"]
       ELSE [list |-> "pointHessiansOutlier", stateFlag |-> "PS_DROP"]
  ELSE [list |-> "none", stateFlag |-> "none"]

\* the loop over host->pointHessians from index i on (i counts from 0),
\* on the record of the call
RECURSIVE FlagLoop(_, _)
FlagLoop(r, i) ==
  IF i >= Len(r.pointHessians) THEN r
  ELSE LET ph == r.pointHessians[i + 1]
           b == Branch(ph, r.flaggedForMarginalization)
       IN IF ph = NullHessian \/ b.list = "none" THEN FlagLoop(r, i + 1)
          ELSE FlagLoop(
                 [r EXCEPT
                    ![b.list] = Append(@, ph.id),
                    !.stateFlag = [@ EXCEPT ![ph.id] = b.stateFlag],
                    !.pointHessians = [@ EXCEPT ![i + 1] = NullHessian]],
                 i + 1)

\* the second loop, from index i on: a null entry is overwritten by the
\* last entry, the list is shortened, and the same index is looked at
\* again
RECURSIVE CompactHessians(_, _)
CompactHessians(list, i) ==
  IF i >= Len(list) THEN list
  ELSE IF list[i + 1] = NullHessian
  THEN CompactHessians(SubSeq([list EXCEPT ![i + 1] = Last(list)],
                              1, Len(list) - 1), i)
  ELSE CompactHessians(list, i + 1)

\* flagPointsForRemoval on one keyframe of the window
FlagPointsForRemoval ==
  /\ removalState.pc = "optimized"
  /\ LET r == FlagLoop(removalState, 0)
     IN removalState' =
          [r EXCEPT !.pc = "flagged",
                    !.pointHessians = CompactHessians(@, 0)]
  /\ UNCHANGED <<pipeline, traceState, mapState, trackState, kfState,
                 margState, actState, lockState>>

\* ------------------- the mutexes and signals, statement by statement
\* In threaded mode the caller of addActiveFrame and printResult
\* ("tracker") and the thread running mappingLoop ("mapper") are followed
\* through every statement that locks or unlocks a mutex, waits on or
\* notifies a condition variable, swaps the coarse trackers or writes a
\* tracking reference.  The code of a function is a set of instructions,
\* one per such statement, each naming the statements that can follow it.

\* number of images handed to addActiveFrame in this component
MaxLockFrames == 8

\* an instruction: its label, what it does, to what, and what follows
I(at, op, arg, next) == [at |-> at, op |-> op, arg |-> arg, next |-> next]

\* printResult: trackMutex, then shellPoseMutex, both until the return
PrintResultCode ==
  {I("pr", "lock", "trackMutex", <<"pr_pose">>),
   I("pr_pose", "lock", "shellPoseMutex", <<"pr_file">>),
   I("pr_file", "effect", "work", <<"pr_unpose">>),
   I("pr_unpose", "unlock", "shellPoseMutex", <<"pr_untrack">>),
   I("pr_untrack", "unlock", "trackMutex", <<"pr_ret">>),
   I("pr_ret", "return", "", <<>>)}

\* trackNewCoarse: the poses of the last frames are read under
\* shellPoseMutex, then the frame is tracked against coarseTracker
TrackNewCoarseCode ==
  {I("tnc", "effect", "readBegin", <<"tnc_pose">>),
   I("tnc_pose", "lock", "shellPoseMutex", <<"tnc_unpose">>),
   I("tnc_unpose", "unlock", "shellPoseMutex", <<"tnc_track">>),
   I("tnc_track", "effect", "readEnd", <<"tnc_ret">>),
   I("tnc_ret", "return", "", <<>>)}

\* initializeFromInitializer: mapMutex for the whole function,
\* shellPoseMutex for the block that writes the two first poses
InitializeFromInitializerCode ==
  {I("ifi", "lock", "mapMutex", <<"ifi_pose">>),
   I("ifi_pose", "lock", "shellPoseMutex", <<"ifi_unpose">>),
   I("ifi_unpose", "unlock", "shellPoseMutex", <<"ifi_done">>),
   I("ifi_done", "effect", "initialized", <<"ifi_unmap">>),
   I("ifi_unmap", "unlock", "mapMutex", <<"ifi_ret">>),
   I("ifi_ret", "return", "", <<>>)}

\* (variant for comparison: the pointers are swapped without the mutex)
SwapCodeUnlocked ==
  {I("aaf_swap", "branch", "swapNeeded", <<"aaf_swapLock", "aaf_track">>),
   I("aaf_swapLock", "effect", "work", <<"aaf_doSwap">>),
   I("aaf_doSwap", "effect", "swap", <<"aaf_swapUnlock">>),
   I("aaf_swapUnlock", "effect", "work", <<"aaf_track">>)}

\* addActiveFrame, "SWAP tracking reference?": the test is made without
\* the mutex, the swap under coarseTrackerSwapMutex
SwapCode ==
  {I("aaf_swap", "branch", "swapNeeded", <<"aaf_swapLock", "aaf_track">>),
   I("aaf_swapLock", "lock", "coarseTrackerSwapMutex", <<"aaf_doSwap">>),
   I("aaf_doSwap", "effect", "swap", <<"aaf_swapUnlock">>),
   I("aaf_swapUnlock", "unlock", "coarseTrackerSwapMutex",
     <<"aaf_track">>)}

\* addActiveFrame: trackMutex from the first statement; it is unlocked
\* before deliverTrackedFrame and by the returns of the initialiser
\* branch and of a lost frame
AddActiveFrameCode ==
  {I("aaf", "lock", "trackMutex", <<"aaf_push">>),
   I("aaf_push", "effect", "pushHistory", <<"aaf_init">>),
   I("aaf_init", "branch", "initialized", <<"aaf_swap", "aaf_first">>),
   I("aaf_first", "branch", "noFirstFrame",
     <<"aaf_setFirst", "aaf_trackFrame">>),
   I("aaf_setFirst", "effect", "setFirst", <<"aaf_unlock">>),
   I("aaf_trackFrame", "choice", "initDone",
     <<"aaf_snapped", "aaf_unlock">>),
   I("aaf_snapped", "call", "ifi", <<"aaf_unlockInit">>),
   I("aaf_unlockInit", "unlock", "trackMutex", <<"aaf_deliver">>),
   I("aaf_track", "call", "tnc", <<"aaf_lost">>),
   I("aaf_lost", "choice", "isLost", <<"aaf_unlock", "aaf_unlockTracked">>),
   I("aaf_unlockTracked", "unlock", "trackMutex", <<"aaf_deliver">>),
   I("aaf_deliver", "call", "dtf", <<"aaf_ret">>),
   I("aaf_unlock", "unlock", "trackMutex", <<"aaf_ret">>),
   I("aaf_ret", "return", "", <<>>)} \cup SwapCode

\* deliverTrackedFrame without linearizeOperation: the frame is queued
\* and the mapper notified under trackMapSyncMutex; the thread waits on
\* mappedFrameSignal while no coarse tracker has a reference
DeliverTrackedFrameCode ==
  {I("dtf", "lock", "trackMapSyncMutex", <<"dtf_push">>),
   I("dtf_push", "effect", "pushQueue", <<"dtf_notify">>),
   I("dtf_notify", "notify", "trackedFrameSignal", <<"dtf_test">>),
   I("dtf_test", "branch", "noReference", <<"dtf_wait", "dtf_unlock">>),
   I("dtf_wait", "wait", "mappedFrameSignal", <<"dtf_test">>),
   I("dtf_unlock", "unlock", "trackMapSyncMutex", <<"dtf_ret">>),
   I("dtf_ret", "return", "", <<>>)}

\* traceNewCoarse: mapMutex for the whole function
TraceNewCoarseCode ==
  {I("trc", "lock", "mapMutex", <<"trc_unmap">>),
   I("trc_unmap", "unlock", "mapMutex", <<"trc_ret">>),
   I("trc_ret", "return", "", <<>>)}

\* makeNonKeyFrame: the pose under shellPoseMutex, then traceNewCoarse
MakeNonKeyFrameCode ==
  {I("mnkf", "lock", "shellPoseMutex", <<"mnkf_unpose">>),
   I("mnkf_unpose", "unlock", "shellPoseMutex", <<"mnkf_trace">>),
   I("mnkf_trace", "call", "trc", <<"mnkf_ret">>),
   I("mnkf_ret", "return", "", <<>>)}

\* makeKeyFrame: the pose under shellPoseMutex, traceNewCoarse, then
\* mapMutex to the end of the function; the new reference is written into
\* coarseTracker_forNewKF under coarseTrackerSwapMutex
MakeKeyFrameCode ==
  {I("mkf", "lock", "shellPoseMutex", <<"mkf_unpose">>),
   I("mkf_unpose", "unlock", "shellPoseMutex", <<"mkf_trace">>),
   I("mkf_trace", "call", "trc", <<"mkf_map">>),
   I("mkf_map", "lock", "mapMutex", <<"mkf_insert">>),
   I("mkf_insert", "effect", "insertKeyFrame", <<"mkf_swapLock">>),
   I("mkf_swapLock", "lock", "coarseTrackerSwapMutex", <<"mkf_makeK">>),
   I("mkf_makeK", "effect", "writeBegin", <<"mkf_setRef">>),
   I("mkf_setRef", "effect", "setCoarseTrackingRef", <<"mkf_plot">>),
   I("mkf_plot", "effect", "writeEnd", <<"mkf_swapUnlock">>),
   I("mkf_swapUnlock", "unlock", "coarseTrackerSwapMutex",
     <<"mkf_unmap">>),
   I("mkf_unmap", "unlock", "mapMutex", <<"mkf_ret">>),
   I("mkf_ret", "return", "", <<>>)}

\* (variant for comparison: the mapper keeps trackMapSyncMutex)
KeepLockedForMapping(at, next) == I(at, "effect", "work", <<next>>)

\* mappingLoop: lock.unlock() before makeKeyFrame and makeNonKeyFrame
UnlockForMapping(at, next) == I(at, "unlock", "trackMapSyncMutex", <<next>>)

\* mappingLoop: trackMapSyncMutex is held except while the thread waits
\* on trackedFrameSignal or maps a frame; after makeNonKeyFrame the
\* catch-up drain sets the pose of the dropped frame under shellPoseMutex
MappingLoopCode ==
  {I("ml", "lock", "trackMapSyncMutex", <<"ml_run">>),
   I("ml_run", "branch", "queueEmpty", <<"ml_wait", "ml_pop">>),
   I("ml_wait", "wait", "trackedFrameSignal", <<"ml_run">>),
   I("ml_pop", "effect", "popQueue", <<"ml_force">>),
   I("ml_force", "branch", "forceKeyframe", <<"ml_unlockF", "ml_overrun">>),
   UnlockForMapping("ml_unlockF", "ml_makeF"),
   I("ml_makeF", "call", "mkf", <<"ml_lockF">>),
   I("ml_lockF", "lock", "trackMapSyncMutex", <<"ml_notifyF">>),
   I("ml_notifyF", "notify", "mappedFrameSignal", <<"ml_run">>),
   I("ml_overrun", "branch", "queueOverrun", <<"ml_ketchup", "ml_others">>),
   I("ml_ketchup", "effect", "needToKetchupMapping", <<"ml_others">>),
   I("ml_others", "branch", "othersQueued", <<"ml_unlockN", "ml_create">>),
   UnlockForMapping("ml_unlockN", "ml_makeN"),
   I("ml_makeN", "call", "mnkf", <<"ml_lockN">>),
   I("ml_lockN", "lock", "trackMapSyncMutex", <<"ml_drain">>),
   I("ml_drain", "branch", "drainNeeded", <<"ml_drainPop", "ml_notify">>),
   I("ml_drainPop", "effect", "popQueue", <<"ml_drainPose">>),
   I("ml_drainPose", "lock", "shellPoseMutex", <<"ml_drainUnpose">>),
   I("ml_drainUnpose", "unlock", "shellPoseMutex", <<"ml_notify">>),
   I("ml_create", "choice", "createKF", <<"ml_unlockK", "ml_unlockO">>),
   UnlockForMapping("ml_unlockK", "ml_makeK"),
   I("ml_makeK", "call", "mkf", <<"ml_caughtUp">>),
   I("ml_caughtUp", "effect", "caughtUp", <<"ml_lockK">>),
   I("ml_lockK", "lock", "trackMapSyncMutex", <<"ml_notify">>),
   UnlockForMapping("ml_unlockO", "ml_makeO"),
   I("ml_makeO", "call", "mnkf", <<"ml_lockO">>),
   I("ml_lockO", "lock", "trackMapSyncMutex", <<"ml_notify">>),
   I("ml_notify", "notify", "mappedFrameSignal", <<"ml_run">>)}

\* the code of both threads
Code ==
  PrintResultCode \cup TrackNewCoarseCode \cup InitializeFromInitializerCode
    \cup AddActiveFrameCode \cup DeliverTrackedFrameCode
    \cup TraceNewCoarseCode \cup MakeNonKeyFrameCode \cup MakeKeyFrameCode
    \cup MappingLoopCode

\* the instruction at a label
Instr(l) == CHOOSE i \in Code : i.at = l

\* the threads before the first image: the mapper is about to enter
\* mappingLoop, the caller has made no call, both coarse trackers are
\* without a reference
NoLocking ==
  [pc |-> [t \in Threads |-> IF t = "mapper" THEN "ml" ELSE "caller"],
   stack |-> [t \in Threads |-> <<>>],
   owner |-> [m \in Mutexes |-> "free"],
   wait |-> [t \in Threads |-> "none"],
   frames |-> 0, queue |-> 0, keyFrames |-> 0,
   needToKetchupMapping |-> FALSE, initialized |-> FALSE,
   firstFrame |-> FALSE,
   refFrameID |-> [c \in Trackers |-> -1],
   coarseTracker |-> "A", reading |-> "none", writing |-> "none",
   order |-> {}]

\* the coarse tracker that is not serving
ForNewKF(s) == IF s.coarseTracker = "A" THEN "B" ELSE "A"

\* the mutexes a thread holds
Held(s, t) == {m \in Mutexes : s.owner[m] = t}

\* the conditions the code branches on
Cond(s, name) ==
  CASE name = "initialized" -> s.initialized
    [] name = "noFirstFrame" -> ~s.firstFrame
    [] name = "swapNeeded" ->
         s.refFrameID[ForNewKF(s)] > s.refFrameID[s.coarseTracker]
    [] name = "noReference" ->
         /\ s.refFrameID[ForNewKF(s)] = -1
         /\ s.refFrameID[s.coarseTracker] = -1
    [] name = "queueEmpty" -> s.queue = 0
    [] name = "forceKeyframe" -> s.keyFrames <= 2
    [] name = "queueOverrun" -> s.queue > 3
    [] name = "othersQueued" -> s.queue > 0
    [] name = "drainNeeded" -> s.needToKetchupMapping /\ s.queue > 0

\* what the statements between the locks change
Effect(s, name) ==
  CASE name = "work" -> s
    [] name = "pushHistory" -> [s EXCEPT !.frames = @ + 1]
    [] name = "setFirst" -> [s EXCEPT !.firstFrame = TRUE]
    [] name = "initialized" ->
         [s EXCEPT !.initialized = TRUE, !.keyFrames = 1]
    [] name = "swap" -> [s EXCEPT !.coarseTracker = ForNewKF(s)]
    [] name = "readBegin" -> [s EXCEPT !.reading = s.coarseTracker]
    [] name = "readEnd" -> [s EXCEPT !.reading = "none"]
    [] name = "pushQueue" -> [s EXCEPT !.queue = @ + 1]
    [] name = "popQueue" -> [s EXCEPT !.queue = @ - 1]
    [] name = "needToKetchupMapping" ->
         [s EXCEPT !.needToKetchupMapping = TRUE]
    [] name = "caughtUp" -> [s EXCEPT !.needToKetchupMapping = FALSE]
    [] name = "insertKeyFrame" -> [s EXCEPT !.keyFrames = @ + 1]
    [] name = "writeBegin" -> [s EXCEPT !.writing = ForNewKF(s)]
    [] name = "setCoarseTrackingRef" ->
         [s EXCEPT !.refFrameID[s.writing] = s.keyFrames]
    [] name = "writeEnd" -> [s EXCEPT !.writing = "none"]

\* a step of the component changes lockState only
LockStateOnly ==
  UNCHANGED <<pipeline, traceState, mapState, trackState, kfState,
              margState, actState, removalState>>

\* the thread is at an instruction of the given kind and is not waiting
At(t, op) ==
  /\ lockState.pc[t] # "caller"
  /\ lockState.wait[t] = "none"
  /\ Instr(lockState.pc[t]).op = op

\* the caller calls addActiveFrame with the next image, or printResult
CallerStep ==
  /\ lockState.pc["tracker"] = "caller"
  /\ \E entry \in {"aaf", "pr"} :
       /\ entry = "aaf" => lockState.frames < MaxLockFrames
       /\ lockState' = [lockState EXCEPT !.pc["tracker"] = entry,
                                         !.stack["tracker"] = <<"caller">>]
  /\ LockStateOnly

\* boost::unique_lock<boost::mutex> lock(m), lock.lock(): the thread
\* proceeds when the mutex is free; the mutexes it holds are recorded
\* with the one it takes
LockStep(t) ==
  /\ At(t, "lock")
  /\ LET i == Instr(lockState.pc[t])
     IN /\ lockState.owner[i.arg] = "free"
        /\ lockState' =
             [lockState EXCEPT
                !.owner[i.arg] = t,
                !.order = @ \cup {<<h, i.arg>> : h \in Held(lockState, t)},
                !.pc[t] = i.next[1]]
  /\ LockStateOnly

\* lock.unlock(), or the end of the scope of a unique_lock
UnlockStep(t) ==
  /\ At(t, "unlock")
  /\ LET i == Instr(lockState.pc[t])
     IN lockState' = [lockState EXCEPT !.owner[i.arg] = "free",
                                       !.pc[t] = i.next[1]]
  /\ LockStateOnly

\* if / while on a condition of the state
BranchStep(t) ==
  /\ At(t, "branch")
  /\ LET i == Instr(lockState.pc[t])
     IN lockState' =
          [lockState EXCEPT
             !.pc[t] = IF Cond(lockState, i.arg) THEN i.next[1]
                       ELSE i.next[2]]
  /\ LockStateOnly

\* if on a result that is not followed here: the initialiser, the
\* tracking result, the keyframe request
ChoiceStep(t) ==
  /\ At(t, "choice")
  /\ LET i == Instr(lockState.pc[t])
     IN \E k \in 1..Len(i.next) :
          lockState' = [lockState EXCEPT !.pc[t] = i.next[k]]
  /\ LockStateOnly

\* the statements between the locks
EffectStep(t) ==
  /\ At(t, "effect")
  /\ LET i == Instr(lockState.pc[t])
     IN lockState' = [Effect(lockState, i.arg) EXCEPT !.pc[t] = i.next[1]]
  /\ LockStateOnly

\* a call of a function of this file
CallStep(t) ==
  /\ At(t, "call")
  /\ LET i == Instr(lockState.pc[t])
     IN lockState' = [lockState EXCEPT
                        !.pc[t] = i.arg,
                        !.stack[t] = <<i.next[1]>> \o @]
  /\ LockStateOnly

\* the return of a function
ReturnStep(t) ==
  /\ At(t, "return")
  /\ lockState' = [lockState EXCEPT !.pc[t] = Head(lockState.stack[t]),
                                    !.stack[t] = Tail(@)]
  /\ LockStateOnly

\* signal.notify_all(): every thread waiting on the signal is woken
NotifyStep(t) ==
  /\ At(t, "notify")
  /\ LET i == Instr(lockState.pc[t])
     IN lockState' =
          [lockState EXCEPT
             !.wait = [u \in Threads |->
                         IF @[u] = i.arg THEN "woken" ELSE @[u]],
             !.pc[t] = i.next[1]]
  /\ LockStateOnly

\* signal.wait(lock): trackMapSyncMutex is released and the thread sleeps
WaitStep(t) ==
  /\ At(t, "wait")
  /\ LET i == Instr(lockState.pc[t])
     IN lockState' = [lockState EXCEPT
                        !.owner["trackMapSyncMutex"] = "free",
                        !.wait[t] = i.arg]
  /\ LockStateOnly

\* a wait may return without a notification
SpuriousWake(t) ==
  /\ lockState.wait[t] \notin {"none", "woken"}
  /\ lockState' = [lockState EXCEPT !.wait[t] = "woken"]
  /\ LockStateOnly

\* the woken thread takes trackMapSyncMutex again and wait returns
WakeStep(t) ==
  /\ lockState.wait[t] = "woken"
  /\ lockState.owner["trackMapSyncMutex"] = "free"
  /\ LET i == Instr(lockState.pc[t])
     IN lockState' =
          [lockState EXCEPT
             !.owner["trackMapSyncMutex"] = t,
             !.order = @ \cup {<<h, "trackMapSyncMutex">> :
                                 h \in Held(lockState, t)},
             !.wait[t] = "none",
             !.pc[t] = i.next[1]]
  /\ LockStateOnly

LockNext ==
  \/ CallerStep
  \/ \E t \in Threads : LockStep(t)
  \/ \E t \in Threads : UnlockStep(t)
  \/ \E t \in Threads : BranchStep(t)
  \/ \E t \in Threads : ChoiceStep(t)
  \/ \E t \in Threads : EffectStep(t)
  \/ \E t \in Threads : CallStep(t)
  \/ \E t \in Threads : ReturnStep(t)
  \/ \E t \in Threads : NotifyStep(t)
  \/ \E t \in Threads : WaitStep(t)
  \/ \E t \in Threads : SpuriousWake(t)
  \/ \E t \in Threads : WakeStep(t)

\* ------------------------------------------------------- specification
TrackerNext ==
  \/ AddFirstFrame
  \/ InitializerFrame
  \/ AddActiveFrame
  \/ TrackNewCoarse
  \/ DeliverLinearized
  \/ DeliverThreaded
  \/ TrackerWakeup
  \/ BlockUntilMappingIsFinished
  \/ JoinMappingThread

MapperNext ==
  \/ MapperStart
  \/ MapperExit
  \/ MapperWait
  \/ MapperWakeup
  \/ MapperPop
  \/ MapperAfterKeyFrame
  \/ MapperAfterNonKeyFrame

MakeFrameNext(t) ==
  \/ TraceNewCoarse(t)
  \/ MakeKeyFrameInsert(t)
  \/ MakeKeyFrameOptimize(t)
  \/ MakeKeyFrameSetRef(t)
  \/ MakeKeyFrameFinish(t)

Next ==
  \/ TrackerNext
  \/ MapperNext
  \/ \E t \in Threads : MakeFrameNext(t)
  \/ \E t \in Threads : SpuriousWakeup(t)

\* the components below the pipeline, as constructed; the pipeline
\* specifications keep them there and follow the frames only
ComponentsIdle ==
  /\ point = ImmaturePoint
  /\ traceLog = NoTrace
  /\ mapState = WindowConstructed
  /\ trackState = TrackConstructed
  /\ kfState = KeyframeConstructed(0, 0)
  /\ margState = NoMarginalization
  /\ actState = NoActivation
  /\ removalState = NoRemoval
  /\ lockState = NoLocking

Init == Constructed(MaxFrames) /\ ComponentsIdle

Spec == Init /\ [][Next]_vars

LiveInit == Constructed(MaxLiveFrames) /\ ComponentsIdle

\* the pipeline before the first image, in one configuration: the
\* component specifications keep it there
PipelineIdle ==
  /\ Constructed(0)
  /\ ~setting_useIMU
  /\ ~linearizeOperation
  /\ ~setting_realTimeMaxKF
  /\ ~needToKetchupMapping

\* an immature point as constructed, or with the interval its creator
\* assigned (pt->idepth_max = pt->idepth_min = 1)
TraceInit ==
  /\ PipelineIdle
  /\ point \in {ImmaturePoint} \cup
       {[ImmaturePoint EXCEPT !.idepth_min = Fin(d), !.idepth_max = Fin(d)] :
          d \in {0, 1}}
  /\ traceLog = NoTrace
  /\ mapState = WindowConstructed
  /\ trackState = TrackConstructed
  /\ kfState = KeyframeConstructed(0, 0)
  /\ margState = NoMarginalization
  /\ actState = NoActivation
  /\ removalState = NoRemoval
  /\ lockState = NoLocking

\* any sequence of traceOn calls on one immature point
TraceSpec == TraceInit /\ [][TraceOn]_vars

\* any sequence of keyframes through the window
WindowInit ==
  /\ PipelineIdle
  /\ point = ImmaturePoint
  /\ traceLog = NoTrace
  /\ mapState = WindowConstructed
  /\ trackState = TrackConstructed
  /\ kfState = KeyframeConstructed(0, 0)
  /\ margState = NoMarginalization
  /\ actState = NoActivation
  /\ removalState = NoRemoval
  /\ lockState = NoLocking

WindowSpec == WindowInit /\ [][WindowNext]_vars

\* any sequence of trackNewCoarse calls, with or without IMU
TrackInit ==
  /\ Constructed(0)
  /\ ~linearizeOperation
  /\ ~setting_realTimeMaxKF
  /\ point = ImmaturePoint
  /\ traceLog = NoTrace
  /\ mapState = WindowConstructed
  /\ trackState = TrackConstructed
  /\ kfState = KeyframeConstructed(0, 0)
  /\ margState = NoMarginalization
  /\ actState = NoActivation
  /\ removalState = NoRemoval
  /\ lockState = NoLocking

TrackSpec == TrackInit /\ [][TrackNext]_vars

\* any sequence of frames through the keyframe decision, for every mode,
\* with or without IMU
KeyframeInit ==
  /\ Constructed(0)
  /\ ~linearizeOperation
  /\ ~setting_realTimeMaxKF
  /\ point = ImmaturePoint
  /\ traceLog = NoTrace
  /\ mapState = WindowConstructed
  /\ trackState = TrackConstructed
  /\ \E rate \in KeyframesPerSecondValues, minFrames \in MinFramesValues :
       kfState = KeyframeConstructed(rate, minFrames)
  /\ margState = NoMarginalization
  /\ actState = NoActivation
  /\ removalState = NoRemoval
  /\ lockState = NoLocking

KeyframeSpec == KeyframeInit /\ [][KeyframeNext]_vars

\* the marginalisation loop on every window of up to MaxFlaggedWindow
\* keyframes, with any of them flagged
MarginalizeInit ==
  /\ PipelineIdle
  /\ point = ImmaturePoint
  /\ traceLog = NoTrace
  /\ mapState = WindowConstructed
  /\ trackState = TrackConstructed
  /\ kfState = KeyframeConstructed(0, 0)
  /\ margState \in {w \in FlaggedWindows :
                      w.flaggedForMarginalization \subseteq
                        {w.frameHessians[k] : k \in 1..Len(w.frameHessians)}}
  /\ actState = NoActivation
  /\ removalState = NoRemoval
  /\ lockState = NoLocking

MarginalizeSpec == MarginalizeInit /\ [][MarginalizeFlagged]_vars

\* activatePointsMT on a keyframe of the window with up to
\* MaxImmaturePoints immature points of any kind, flagged or not
ActivationInit ==
  /\ PipelineIdle
  /\ point = ImmaturePoint
  /\ traceLog = NoTrace
  /\ mapState = WindowConstructed
  /\ trackState = TrackConstructed
  /\ kfState = KeyframeConstructed(0, 0)
  /\ margState = NoMarginalization
  /\ \E n \in 0..MaxImmaturePoints, hostFlagged \in BOOLEAN :
       \E list \in ImmatureLists(n) :
          actState = [NoActivation EXCEPT
                        !.pc = "traced",
                        !.flaggedForMarginalization = hostFlagged,
                        !.before = list,
                        !.immaturePoints = list]
  /\ removalState = NoRemoval
  /\ lockState = NoLocking

ActivationSpec == ActivationInit /\ [][ActivatePointsMT]_vars

\* flagPointsForRemoval on a keyframe of the window with up to
\* MaxActivePoints active points of any kind, flagged or not
RemovalInit ==
  /\ PipelineIdle
  /\ point = ImmaturePoint
  /\ traceLog = NoTrace
  /\ mapState = WindowConstructed
  /\ trackState = TrackConstructed
  /\ kfState = KeyframeConstructed(0, 0)
  /\ margState = NoMarginalization
  /\ actState = NoActivation
  /\ lockState = NoLocking
  /\ \E n \in 0..MaxActivePoints, hostFlagged \in BOOLEAN :
       \E list \in PointHessianLists(n) :
          removalState =
            [NoRemoval EXCEPT
               !.pc = "optimized",
               !.flaggedForMarginalization = hostFlagged,
               !.before = list,
               !.pointHessians = list,
               !.stateFlag = [k \in 1..n |-> "PS_ACTIVE"]]

RemovalSpec == RemovalInit /\ [][FlagPointsForRemoval]_vars

\* the two threads in threaded mode, before the first image
LockInit ==
  /\ PipelineIdle
  /\ point = ImmaturePoint
  /\ traceLog = NoTrace
  /\ mapState = WindowConstructed
  /\ trackState = TrackConstructed
  /\ kfState = KeyframeConstructed(0, 0)
  /\ margState = NoMarginalization
  /\ actState = NoActivation
  /\ removalState = NoRemoval
  /\ lockState = NoLocking

LockSpec == LockInit /\ [][LockNext]_vars

\* the mapping thread keeps running while it can take a step; a wait returns
\* without notification only by accident, so SpuriousWakeup is not required
\* to happen, and nothing is assumed about the caller

LiveSpec ==
  /\ LiveInit
  /\ [][Next]_vars
  /\ WF_vars(MapperNext)
  /\ WF_vars(MakeFrameNext("mapper"))

\* both threads are scheduled fairly: in addition to the mapping thread,
\* the thread inside deliverTrackedFrame gets trackMapSyncMutex if the
\* mutex is free again and again (the mapper may take and release it any
\* number of times, a wait returning without notification included), and
\* then queues its frame or returns from its wait; whether the caller
\* hands over another image or shuts the system down is left open
HandOffSpec ==
  /\ LiveSpec
  /\ SF_vars(DeliverThreaded)
  /\ SF_vars(TrackerWakeup)

\* ------------------------------------------------------------- claims
\* C1: the frames leave unmappedTrackedFrames in arrival order: whenever
\* the mapper removes a frame (the regular pop or the catch-up drain) it is
\* the front frame and its id is larger than the id of every frame removed
\* before, so no frame is removed twice
C1_PopOrder ==
  [][Len(unmappedTrackedFrames') < Len(unmappedTrackedFrames) =>
       /\ unmappedTrackedFrames' = Tail(unmappedTrackedFrames)
       /\ Head(unmappedTrackedFrames) > job.frame
       /\ Head(unmappedTrackedFrames) > drained
       /\ \A i \in 1..Len(unmappedTrackedFrames') :
            unmappedTrackedFrames'[i] > Head(unmappedTrackedFrames)]_vars

\* several frames were popped, one of them by the drain, more are waiting
C1_Witness ==
  /\ job.prev >= 0
  /\ drained > job.prev
  /\ job.frame > drained
  /\ Len(unmappedTrackedFrames) >= 2

\* C2: once blockUntilMappingIsFinished has cleared runMapping and notified
\* trackedFrameSignal, the mapping thread returns from mappingLoop
C2_MapperReturns == (pc["tracker"] = "join") ~> (pc["mapper"] = "done")

\* the shutdown was requested while the mapper worked on popped frames and
\* the mapper has returned
C2_Witness ==
  /\ pc["tracker"] = "joined"
  /\ pc["mapper"] = "done"
  /\ popped >= 2
  /\ unmappedTrackedFrames # <<>>

\* C3: in threaded mode the first two frames the mapper pops become
\* keyframes, whatever their needKF flag and however many frames wait
C3_FirstTwoForced ==
  (popped \in 1..2 /\ job.kind # "none") =>
     (job.kind = "KF" /\ job.forced)

\* the second popped frame did not ask for a keyframe, frames were waiting
\* behind it, and it is made a keyframe
C3_Witness ==
  /\ popped = 2
  /\ job.kind = "KF"
  /\ ~job.own
  /\ job.depth >= 2

\* the mapper has just popped a frame and decided what to do with it
Popping == job' # job /\ job'.kind # "none"

\* the threads' positions inside makeKeyFrame while the window, the points
\* and the residuals are being changed
Mutating == {"kf_optimize", "kf_setref", "kf_finish"}

C5_CatchUp ==
  [][/\ (Popping /\ ~job'.forced /\ job'.depth > 3) =>
          (job'.kind = "NonKF" /\ needToKetchupMapping')
     /\ (pc["mapper"] = "relock" /\ pc'["mapper"] = "loop"
           /\ ~job.forced /\ job.depth > 3) =>
          /\ unmappedTrackedFrames # <<>>
          /\ unmappedTrackedFrames' = Tail(unmappedTrackedFrames)
          /\ drained' = Head(unmappedTrackedFrames)
          /\ traced' = traced
          /\ traced = job.frame
          /\ allKeyFramesHistory' = allKeyFramesHistory
          /\ frameHessians' = frameHessians
     /\ (traced' # traced) => (traced' > drained)]_vars

\* a frame popped with more than 3 frames behind it was traced as a
\* non-keyframe and the frame after it has been drained
C5_Witness ==
  /\ pc["mapper"] = "loop"
  /\ job.kind = "none"
  /\ job.depth > 3
  /\ traced = job.frame
  /\ drained = job.frame + 1
  /\ Len(unmappedTrackedFrames) >= 3

DeliverReturns ==
  /\ ~linearizeOperation
  /\ pc["tracker"] \in {"deliver", "wait"}
  /\ pc'["tracker"] = "idle"

\* C7 (as stated): deliverTrackedFrame returns only when both coarse
\* trackers have a reference
C7_Original ==
  [][DeliverReturns =>
       (refFrameID'["A"] # -1 /\ refFrameID'["B"] # -1)]_vars

\* C7: deliverTrackedFrame returns only when at least one of the two coarse
\* trackers has a reference
C7_WaitForReference ==
  [][DeliverReturns =>
       (refFrameID'["A"] # -1 \/ refFrameID'["B"] # -1)]_vars

\* the tracker waited for the first keyframe and returned although the
\* serving coarse tracker has no reference yet
C7_Witness ==
  /\ ~linearizeOperation
  /\ pc["tracker"] = "idle"
  /\ Len(allFrameHistory) >= 2
  /\ popped = 1
  /\ refFrameID[coarseTracker] = -1
  /\ refFrameID[coarseTracker_forNewKF] # -1

\* C8: a frame is tracked against a reference whose keyframe is in the
\* window with its optimisation finished; makeKeyFrame installs a reference
\* only into coarseTracker_forNewKF, with coarseTrackerSwapMutex free for
\* it, and the reference is the keyframe just optimised; the serving tracker
\* changes only by the swap of addActiveFrame, only when the other tracker's
\* reference is newer, so the serving reference never gets older
C8_ReferenceReady ==
  /\ [](pc["tracker"] = "track" =>
          /\ refFrameID[coarseTracker] # -1
          /\ refFrameID[coarseTracker] <= optimized
          /\ refFrameID[coarseTracker] <= backShellId
          /\ frameHessians # <<>>)
  /\ [][/\ (refFrameID' # refFrameID) =>
             /\ refFrameID'[coarseTracker] = refFrameID[coarseTracker]
             /\ coarseTracker' = coarseTracker
             /\ mutex["coarseTrackerSwapMutex"] = "free"
             /\ refFrameID'[coarseTracker_forNewKF] = optimized
             /\ optimized = backShellId
        /\ (coarseTracker' # coarseTracker) =>
             /\ pc["tracker"] = "idle" /\ pc'["tracker"] = "track"
             /\ refFrameID[coarseTracker'] > refFrameID[coarseTracker]
        /\ refFrameID'[coarseTracker'] >= refFrameID[coarseTracker]]_vars

\* the trackers were swapped at least twice and a frame is being tracked
\* against the newest optimised keyframe while the mapper works on the next
C8_Witness ==
  /\ ~linearizeOperation
  /\ pc["tracker"] = "track"
  /\ pc["mapper"] = "kf_optimize"
  /\ coarseTracker = "A"
  /\ refFrameID["B"] # -1
  /\ refFrameID["A"] > refFrameID["B"]
  /\ refFrameID["A"] = optimized
  /\ backShellId > optimized

\* C9 (as stated): only the mapping thread changes the window, the points
\* and the residuals
C9_Original == \A w \in writers : w.thread = "mapper"

\* C9: the window, the points and the residuals are changed by the mapping
\* thread in makeKeyFrame, and by the thread calling addActiveFrame in
\* initializeFromInitializer and, with linearizeOperation, in makeKeyFrame;
\* whoever changes them holds mapMutex, so never two threads at a time
C9_SingleWriter ==
  /\ \A w \in writers :
       \/ w.thread = "mapper" /\ w.op = "makeKeyFrame"
            /\ ~linearizeOperation
       \/ w.thread = "tracker" /\ w.op = "initializeFromInitializer"
       \/ w.thread = "tracker" /\ w.op = "makeKeyFrame"
            /\ linearizeOperation
  /\ \A t \in Threads : pc[t] \in Mutating => mutex["mapMutex"] = t
  /\ ~(pc["tracker"] \in Mutating /\ pc["mapper"] \in Mutating)

\* the calling thread initialised the window, the mapping thread is inside
\* makeKeyFrame, and the calling thread is tracking the next frame
C9_Witness ==
  /\ writers = {[thread |-> "tracker", op |-> "initializeFromInitializer"],
                [thread |-> "mapper", op |-> "makeKeyFrame"]}
  /\ pc["mapper"] \in Mutating
  /\ pc["tracker"] = "track"

\* the tracking thread appends a frame to unmappedTrackedFrames
Enqueues == Len(unmappedTrackedFrames') > Len(unmappedTrackedFrames)

\* C10 (as stated): every frame appended to unmappedTrackedFrames was
\* tracked successfully, with and without IMU
C10_Original == [][Enqueues => local.ok]_vars

\* C10: without IMU every frame appended to unmappedTrackedFrames was
\* tracked successfully, and a frame whose tracking result is not finite
\* sets isLost and is not appended
C10_FailuresContained ==
  [][/\ (Enqueues /\ ~setting_useIMU) => local.ok
     /\ (isLost' /\ ~isLost) =>
          (~setting_useIMU /\ ~Enqueues /\ pc'["tracker"] = "idle")]_vars

\* without IMU: frames were appended, then a frame failed and is in
\* neither the queue nor the mapper's hands
C10_Witness ==
  /\ ~setting_useIMU /\ ~linearizeOperation
  /\ isLost
  /\ popped >= 2
  /\ unmappedTrackedFrames # <<>>
  /\ Last(unmappedTrackedFrames) < Last(allFrameHistory)

\* the interval of the point is the one a successful trace leaves behind
IntervalValid(p) == ~IntervalInvalid(p.idepth_min, p.idepth_max)

\* C11 (as stated): traceOn never returns OUTLIER on two consecutive calls
\* on the same point, whichever test of traceOn reports the outlier
C11_Original ==
  traceLog.prevStatus = "IPS_OUTLIER" =>
    point.lastTraceStatus # "IPS_OUTLIER"

\* C12: once a point is OOB, every traceOn call returns OOB and leaves
\* idepth_min, idepth_max, quality, lastTraceUV and lastTracePixelInterval
\* as they are, for every target frame and transform
C12_OOBAbsorbing ==
  [][point.lastTraceStatus = "IPS_OOB" =>
       /\ point' = point
       /\ traceLog'.prevStatus = "IPS_OOB"
       /\ traceLog'.numSteps = 0]_vars

\* a point was traced with success, went OOB and was traced once more
C12_Witness ==
  /\ traceLog.prevStatus = "IPS_OOB"
  /\ point.lastTraceStatus = "IPS_OOB"
  /\ IntervalValid(point)
  /\ point.quality # ImmaturePoint.quality

\* C13 (as stated): after OUTLIER the next traceOn call returns GOOD or
\* OOB, never SKIPPED, BADCONDITION or OUTLIER
C13_Original ==
  traceLog.prevStatus = "IPS_OUTLIER" =>
    point.lastTraceStatus \in {"IPS_GOOD", "IPS_OOB"}

\* C13: after OUTLIER the next traceOn call can return GOOD, OOB, SKIPPED,
\* BADCONDITION or OUTLIER; SKIPPED and BADCONDITION need a finite upper
\* bound, and OUTLIER is returned only by the check of the new interval
\* (which it leaves non-finite or negative), never by the energy test
C13_AfterOutlier ==
  traceLog.prevStatus = "IPS_OUTLIER" =>
    /\ point.lastTraceStatus # "IPS_UNINITIALIZED"
    /\ point.lastTraceStatus \in {"IPS_SKIPPED", "IPS_BADCONDITION"} =>
         IsFinite(point.idepth_max)
    /\ point.lastTraceStatus = "IPS_OUTLIER" =>
         (~IntervalValid(point) /\ traceLog.numSteps > 0)

\* an outlier with a narrow interval was skipped by the next call
C13_Witness ==
  /\ traceLog.prevStatus = "IPS_OUTLIER"
  /\ point.lastTraceStatus = "IPS_SKIPPED"
  /\ IntervalValid(point)

\* C14: the stored quality does not increase in a call whose discrete
\* search used 10 or fewer steps, and does not change in a call that
\* returns before the search
C14_QualityMonotone ==
  [][/\ traceLog'.numSteps = 0 => point'.quality = point.quality
     /\ traceLog'.numSteps <= 10 =>
          (point'.quality = point.quality
             \/ FLt(point'.quality, point.quality))]_vars

\* a search of at most 10 steps computed a higher quality than the one
\* stored by an earlier search, and the stored one was kept
C14_Witness ==
  /\ traceLog.numSteps \in 1..10
  /\ FLt(point.quality, traceLog.newQuality)
  /\ point.quality # ImmaturePoint.quality

\* the ids of a sequence grow strictly
Increasing(ids) ==
  \A i, j \in 1..Len(ids) : i < j => ids[i] < ids[j]

\* C15: a frame's shell id is its index in allFrameHistory and a keyframe's
\* frameID its index in allKeyFramesHistory, so both grow strictly in the
\* order of arrival and of promotion and no id is given twice; the first
\* frame of the initialiser becomes keyframe 0 and the frame on which the
\* initialiser succeeded keyframe 1
C15_MonotonicIds ==
  [][/\ allFrameHistory' # allFrameHistory =>
          allFrameHistory' =
            Append(allFrameHistory, Len(allFrameHistory))
     /\ Increasing(allFrameHistory')
     /\ allKeyFramesHistory' # allKeyFramesHistory =>
          /\ allKeyFramesHistory' =
               Append(allKeyFramesHistory, Len(allKeyFramesHistory))
          /\ Last(frameHessians') = Len(allKeyFramesHistory)
          /\ Len(allKeyFramesHistory) = 0 => backShellId' = firstFrame
          /\ Len(allKeyFramesHistory) = 1 =>
               /\ backShellId' = Last(allFrameHistory')
               /\ backShellId' > firstFrame
               /\ backShellId' = traced
     /\ Increasing(allKeyFramesHistory')
     /\ Increasing(frameHessians')]_vars

\* frames that did not become keyframes arrived between the keyframes, and
\* the window has dropped its oldest keyframe
C15_Witness ==
  /\ Len(allKeyFramesHistory) >= 4
  /\ Len(allFrameHistory) > Len(allKeyFramesHistory) + 1
  /\ Len(frameHessians) < Len(allKeyFramesHistory)
  /\ Head(frameHessians) > 0
  /\ backShellId > Last(allKeyFramesHistory)

\* the step of makeKeyFrame that appends the new keyframe
InsertStep == mapState.pc = "idle" /\ mapState'.pc = "inserted"

\* C16: when makeKeyFrame appends the keyframe N, every active point of
\* another window keyframe gets exactly one new residual towards N, in
\* state IN and registered with the backend; no residual is created for a
\* point hosted by N, so every residual created in this step has host and
\* target in the window and a target other than its host
C16_ResidualsForNewKeyFrame ==
  [][InsertStep =>
       LET new == Last(mapState'.frameHessians)
           window == WindowFrames(mapState'.frameHessians)
           added == mapState'.residuals (-) mapState.residuals
           others == {p \in mapState'.pointHessians :
                        p[1] \in window \ {new}}
       IN /\ new \notin WindowFrames(mapState.frameHessians)
          /\ mapState.residuals \sqsubseteq mapState'.residuals
          /\ \A p \in others :
               LET forP == {r \in BagToSet(added) : r.point = p}
               IN /\ Cardinality(forP) = 1
                  /\ \A r \in forP :
                       /\ CopiesIn(r, added) = 1
                       /\ r.target = new
                       /\ r.host = p[1]
                       /\ r.state = "IN"
                       /\ r.efResidual
          /\ \A r \in BagToSet(added) :
               /\ r.point \in others
               /\ r.point[1] # new
               /\ r.host \in window
               /\ r.target \in window
               /\ r.target # r.host]_vars

\* the new keyframe was just appended to a window of two older keyframes
\* that both host active points; each of these points has its residual
\* towards the new keyframe, and one of the older frames is flagged
C16_Witness ==
  /\ mapState.pc = "inserted"
  /\ Len(mapState.frameHessians) = MaxWindow + 1
  /\ mapState.flaggedForMarginalization # {}
  /\ \E p, q \in mapState.pointHessians :
       /\ p[1] # q[1]
       /\ \A x \in {p, q} :
            \E r \in BagToSet(mapState.residuals) :
              /\ r.point = x
              /\ r.target = Last(mapState.frameHessians)
              /\ r.state = "IN"

\* C17: currentMinActDist is 2 until the first activatePointsMT call and
\* lies in [0, 4] at the end of every call, whatever numbers of points the
\* backend reported
C17_MinActDistSaturates ==
  /\ mapState.currentMinActDist \in 0..40
  /\ mapState.allKeyFramesHistory <= 1 => mapState.currentMinActDist = 20

\* a call found the backend crowded while currentMinActDist was close to
\* 4: the sum went beyond 4 and the call ended with 4
C17_Witness ==
  /\ mapState.pc = "adjusted"
  /\ mapState.limit = "upper"
  /\ mapState.currentMinActDist = 40

\* a traceOn call with zero baseline on a point with idepth_min = idepth_max
ZeroBaselineCall ==
  /\ traceLog' # traceLog \/ point' # point
  /\ traceLog'.zeroBaseline
  /\ IsFinite(point.idepth_min)
  /\ point.idepth_min = point.idepth_max

\* C18 (as stated): traceOn with finite idepth_min = idepth_max and zero
\* baseline returns SKIPPED and leaves the interval unchanged
C18_Original ==
  [][ZeroBaselineCall =>
       /\ point'.lastTraceStatus = "IPS_SKIPPED"
       /\ point'.idepth_min = point.idepth_min
       /\ point'.idepth_max = point.idepth_max]_vars

\* C18: traceOn with finite idepth_min = idepth_max and zero baseline
\* leaves the interval unchanged; it returns SKIPPED when the point is not
\* OOB and its projection lies inside the image border, and OOB otherwise
C18_ZeroBaseline ==
  [][ZeroBaselineCall =>
       /\ point'.lastTraceStatus =
            IF point.lastTraceStatus # "IPS_OOB" /\ traceLog'.minInImage
            THEN "IPS_SKIPPED" ELSE "IPS_OOB"
       /\ point'.idepth_min = point.idepth_min
       /\ point'.idepth_max = point.idepth_max]_vars

\* a point with idepth_min = idepth_max = 1 was skipped by a call with zero
\* baseline
C18_Witness ==
  /\ traceLog.zeroBaseline
  /\ traceLog.minInImage
  /\ traceLog.prevStatus = "IPS_UNINITIALIZED"
  /\ point.lastTraceStatus = "IPS_SKIPPED"
  /\ point.idepth_min = Fin(1)
  /\ point.idepth_max = Fin(1)

\* C20: a trackNewCoarse call that is given a pose hint tries the hint and
\* nothing else: lastF_2_fh_tries holds that one pose, and trackNewestCoarse
\* has been called exactly once when the loop is left
C20_SingleSeedWithHint ==
  trackState.referenceToFrameHint =>
    /\ trackState.lastF_2_fh_tries = <<"hint">>
    /\ trackState.tryIterations = IF trackState.pc = "loop" THEN 0 ELSE 1

\* a call with a hint has left the loop after its only pass although the
\* coarse tracker reported bad tracking and no pose was accepted
C20_Witness ==
  /\ trackState.referenceToFrameHint
  /\ trackState.pc = "after"
  /\ trackState.tryIterations = 1
  /\ ~trackState.trackingGoodRet
  /\ ~trackState.haveOneGood

\* C19: firstPose is assigned only in IMU mode by the addActiveFrame call
\* in which the initialiser succeeds, before initialized is set; once the
\* system is initialised no operation changes it
C19_FirstPoseFixed ==
  [][firstPose' # firstPose =>
       /\ setting_useIMU
       /\ ~initialized
       /\ initialized'
       /\ firstPose' = Last(allFrameHistory')]_vars

\* IMU mode: the initialiser succeeded on a later frame than the second
\* one, keyframes were made since, and firstPose is still the one of that
\* frame
C19_Witness ==
  /\ setting_useIMU
  /\ initialized
  /\ firstPose > 1
  /\ Len(allKeyFramesHistory) >= 3
  /\ Len(allFrameHistory) > firstPose + 2

\* a trackNewCoarse call without hint whose three poses are valid has built
\* its list of start poses
MotionModelCall ==
  /\ trackState.pc \in {"loop", "after"}
  /\ ~trackState.referenceToFrameHint
  /\ trackState.posesValid

\* C27 as stated: such a call has 32 start poses, 27 of them rotations
C27_Original ==
  MotionModelCall => Len(trackState.lastF_2_fh_tries) = 32

\* C27: without hint and with valid poses the list holds the five
\* motion-model poses (constant, double, half, zero, zero from the keyframe)
\* followed by 26 rotations around constant motion, 31 start poses in this
\* order
C27_MotionSeeds ==
  MotionModelCall =>
    /\ Len(trackState.lastF_2_fh_tries) = 31
    /\ SubSeq(trackState.lastF_2_fh_tries, 1, 5) =
         <<"constant", "double", "half", "zero", "zeroFromKF">>
    /\ \A k \in 1..26 :
         trackState.lastF_2_fh_tries[5 + k] = <<"rotation", k>>

\* the loop went through the whole list without an accepted pose
C27_Witness ==
  /\ MotionModelCall
  /\ trackState.pc = "after"
  /\ trackState.tryIterations = 31
  /\ ~trackState.haveOneGood

\* a traceOn call that found both ends of the search segment inside the
\* image border, on a point with idepth_min >= 0, with a transform that
\* puts the projection at idepth_min at a depth outside (0.75, 1.5)
ScaleChangeCall ==
  /\ traceLog' # traceLog \/ point' # point
  /\ traceLog'.minInImage
  /\ traceLog'.maxInImage
  /\ ~FLt(point.idepth_min, Fin(0))
  /\ traceLog'.depth # 1

\* C28 as stated: such a call returns OOB whatever the length of the
\* projected interval
C28_Original ==
  [][ScaleChangeCall => point'.lastTraceStatus = "IPS_OOB"]_vars

\* C28: such a call returns OOB at the scale test, except when idepth_max
\* is finite and the projected interval is shorter than
\* setting_trace_slackInterval: the distance test comes first and returns
\* SKIPPED; the search is never started
C28_ScaleGate ==
  [][ScaleChangeCall =>
       IF traceLog'.stage = "distance"
       THEN /\ IsFinite(point.idepth_max)
            /\ point'.lastTraceStatus = "IPS_SKIPPED"
            /\ point'.idepth_min = point.idepth_min
            /\ point'.idepth_max = point.idepth_max
       ELSE /\ traceLog'.stage = "scale"
            /\ traceLog'.numSteps = 0
            /\ point'.lastTraceStatus = "IPS_OOB"]_vars

\* a point with an interval from a successful trace went OOB at the scale
\* test of a later call
C28_Witness ==
  /\ traceLog.stage = "scale"
  /\ traceLog.prevStatus = "IPS_GOOD"
  /\ traceLog.depth > 1
  /\ IsFinite(point.idepth_max)
  /\ point.lastTraceStatus = "IPS_OOB"

\* C29 as stated: a call that reaches the interval update returns OOB
\* when the new idepth_min or idepth_max is not finite or idepth_max is
\* negative, and otherwise GOOD with idepth_min <= idepth_max
C29_Original ==
  traceLog.stage = "interval" =>
    IF IntervalValid(point)
    THEN /\ point.lastTraceStatus = "IPS_GOOD"
         /\ ~FLt(point.idepth_max, point.idepth_min)
    ELSE point.lastTraceStatus = "IPS_OOB"

\* a frame has gone through the keyframe decision and was delivered
Decided == kfState.outcome = "delivered"

SpacingRule(delivered) ==
  LET minFrames == kfState.setting_minFramesBetweenKeyframes
      between == kfState.framesBetweenKFs
      grown == kfState.restBefore + (minFrames % Parts)
  IN /\ (delivered /\ kfState.needKF) => between >= minFrames \div Parts
     /\ (/\ Decided
         /\ kfState.requested
         /\ between >= minFrames \div Parts
         /\ between * Parts < minFrames)
        => /\ kfState.needKF <=> grown < Parts
           /\ kfState.framesBetweenKFsRest =
                IF grown >= Parts THEN grown - Parts ELSE grown
     /\ kfState.framesBetweenKFsRest >= 0
     /\ kfState.framesBetweenKFsRest < Parts

\* C25 as stated: the rule holds for every frame addActiveFrame delivers
C25_Original == SpacingRule(kfState.outcome \in {"delivered", "initialized"})

\* C25: a frame that went through the keyframe decision is never delivered
\* with needKF = true when fewer frames than the integer part of
\* setting_minFramesBetweenKeyframes lie between it and its reference
\* keyframe; when a keyframe is requested and that number is at least the
\* integer part but below the setting, framesBetweenKFsRest grows by the
\* fractional part, the keyframe is suppressed exactly when the rest has
\* reached 1, and the rest is then reduced by 1; the rest stays in [0,1)
C25_MinimumSpacing == SpacingRule(Decided)

C25_Witness ==
  /\ Decided
  /\ kfState.requested
  /\ kfState.restBefore + (kfState.setting_minFramesBetweenKeyframes % Parts)
       > Parts
  /\ ~kfState.needKF
  /\ kfState.framesBetweenKFsRest > 0

\* a trackNewCoarse call has ended without an accepted seed
NoSeedAccepted ==
  /\ ~trackState.haveOneGood
  /\ \/ trackState.pc = "exit"
     \/ trackState.pc = "idle" /\ trackState.result # "none"

\* C26 as stated: a frame without an accepted seed takes the first start
\* pose and is marked as badly tracked with IMU, and sets isLost without
\* reaching the keyframe decision without IMU
C26_Original ==
  NoSeedAccepted =>
    IF setting_useIMU
    THEN /\ trackState.result = "decision"
         /\ trackState.lastF_2_fh = trackState.lastF_2_fh_tries[1]
         /\ ~trackState.trackingWasGood
    ELSE trackState.result = "lost"

\* C26: when no seed is accepted, the process exits if the first start
\* pose is unusable; otherwise the frame takes the first start pose and
\* its trackingWasGood is trackingGoodRet (true if the coarse tracker
\* reported good tracking for some seed), with IMU the frame goes on to
\* the keyframe decision, without IMU isLost is set and it does not
C26_TrackingFallback ==
  NoSeedAccepted =>
    IF trackState.pc = "exit"
    THEN trackState.result = "none"
    ELSE /\ trackState.lastF_2_fh = trackState.lastF_2_fh_tries[1]
         /\ trackState.trackingWasGood = trackState.trackingGoodRet
         /\ ~trackState.tresFinite
         /\ trackState.result =
              IF setting_useIMU THEN "decision" ELSE "lost"

C26_Witness ==
  /\ NoSeedAccepted
  /\ setting_useIMU
  /\ trackState.result = "decision"
  /\ trackState.trackingWasGood
  /\ trackState.lastF_2_fh = "constant"

C21_Original ==
  margState.pc = "done" =>
    \A k \in 1..Len(margState.frameHessians) :
       margState.frameHessians[k] \notin margState.flaggedForMarginalization

\* the point is an entry of the list
InList(p, list) == \E k \in 1..Len(list) : list[k] = p

\* C30: after activatePointsMT a point with a non-finite idepth_max or the
\* status OUTLIER is deleted; a point that cannot be activated is deleted
\* if its host is flagged for marginalisation or its status is OOB, and is
\* otherwise still in the list, as it was; the list has no null entry, no
\* deleted point and no point twice, and none of its points has a
\* non-finite idepth_max or the status OUTLIER
C30_ActivationFiltering ==
  actState.pc = "activated" =>
    /\ \A k \in 1..Len(actState.before) :
         LET p == actState.before[k]
             invalid == ~p.finite \/ p.lastTraceStatus = "IPS_OUTLIER"
             eligible == /\ p.lastTraceStatus \in {"IPS_GOOD", "IPS_OOB"}
                         /\ p.traceOK
             gone == /\ p.id \in actState.deleted
                     /\ ~InList(p, actState.immaturePoints)
         IN /\ invalid => gone
            /\ (~invalid /\ ~eligible) =>
                 IF \/ actState.flaggedForMarginalization
                    \/ p.lastTraceStatus = "IPS_OOB"
                 THEN gone
                 ELSE /\ InList(p, actState.immaturePoints)
                      /\ p.id \notin actState.deleted
    /\ \A k \in 1..Len(actState.immaturePoints) :
         LET p == actState.immaturePoints[k]
         IN /\ p # NullPoint
            /\ p.id \notin actState.deleted
            /\ p.finite
            /\ p.lastTraceStatus # "IPS_OUTLIER"
            /\ \A j \in 1..Len(actState.immaturePoints) :
                 actState.immaturePoints[j] = p => j = k

C30_Witness ==
  /\ actState.pc = "activated"
  /\ ~actState.flaggedForMarginalization
  /\ Len(actState.before) = 3
  /\ actState.before[1].lastTraceStatus = "IPS_OUTLIER"
  /\ actState.before[1].finite
  /\ ~actState.before[2].finite
  /\ actState.before[3].lastTraceStatus = "IPS_UNINITIALIZED"
  /\ actState.immaturePoints = <<actState.before[3]>>
  /\ actState.deleted = {1, 2}

\* the point at index k of the list was put on toOptimize: it is valid,
\* it can be activated, its projection is inside the new frame and far
\* enough from the points of the distance map
Enqueued(k) ==
  LET p == actState.before[k]
  IN /\ p.finite
     /\ p.lastTraceStatus \in {"IPS_GOOD", "IPS_OOB"}
     /\ p.traceOK
     /\ actState.fates[k] \in {"point", "failed", "unprocessed"}

\* the number of entries of the sequence s that equal x
Count(s, x) == Cardinality({j \in 1..Len(s) : s[j] = x})

\* C31: after activatePointsMT, for every enqueued candidate: if the
\* backend returned a new point it is in the host's active sequence, once,
\* and in the backend with all its residuals, and the immature point is
\* out of the immature list and deleted; if -1 was returned, or nothing
\* while the last status is OOB, the immature point is out of the list and
\* deleted and there is no active point for it; otherwise it is still in
\* the list and not deleted.  No point is in the immature list and in the
\* active sequence, and no point is deleted twice
C31_ActivationResults ==
  actState.pc = "activated" =>
    /\ \A k \in 1..Len(actState.before) :
         LET p == actState.before[k]
             fate == actState.fates[k]
             removed == /\ ~InList(p, actState.immaturePoints)
                        /\ actState.deletions[k] = 1
         IN Enqueued(k) =>
              IF fate = "point"
              THEN /\ Count(actState.pointHessians, p.id) = 1
                   /\ p.id \in actState.efPoints
                   /\ {r \in ResidualCounts :
                         <<p.id, r>> \in actState.efResiduals}
                        = 1..actState.residuals[k]
                   /\ removed
              ELSE IF fate = "failed" \/ p.lastTraceStatus = "IPS_OOB"
              THEN /\ removed
                   /\ Count(actState.pointHessians, p.id) = 0
                   /\ p.id \notin actState.efPoints
              ELSE /\ InList(p, actState.immaturePoints)
                   /\ actState.deletions[k] = 0
                   /\ Count(actState.pointHessians, p.id) = 0
    /\ \A k \in 1..Len(actState.before) :
         /\ actState.deletions[k] <= 1
         /\ ~(/\ InList(actState.before[k], actState.immaturePoints)
              /\ Count(actState.pointHessians, actState.before[k].id) > 0)

\* the three results on one keyframe: a new point with two residuals, a
\* point without result whose last status is OOB, and one without result
\* that stays
C31_Witness ==
  /\ actState.pc = "activated"
  /\ Len(actState.before) = 3
  /\ \A k \in 1..3 : Enqueued(k)
  /\ actState.fates = <<"point", "unprocessed", "unprocessed">>
  /\ actState.residuals[1] = 2
  /\ actState.before[2].lastTraceStatus = "IPS_OOB"
  /\ actState.before[3].lastTraceStatus = "IPS_GOOD"
  /\ actState.pointHessians = <<1>>
  /\ actState.immaturePoints = <<actState.before[3]>>

\* the active point p is still in the list of its host, with its flag
\* unchanged and on none of the two other lists
Untouched(p) ==
  /\ Count(removalState.pointHessians, p) = 1
  /\ removalState.stateFlag[p.id] = "PS_ACTIVE"
  /\ Count(removalState.pointHessiansMarginalized, p.id) = 0
  /\ Count(removalState.pointHessiansOutlier, p.id) = 0

\* the flags flagPointsForRemoval leaves; a point that leaves is
\* marginalised when its Hessian exceeds minIdepthH_marg and, with
\* inliersOnly, isInlierNew holds for it
RemovalFlags(inliersOnly) ==
  removalState.pc = "flagged" =>
    \A k \in 1..Len(removalState.before) :
      LET p == removalState.before[k]
          flag == removalState.stateFlag[p.id]
          marginalise == p.wellConstrained /\ (inliersOnly => p.inlier)
      IN IF p.low \/ p.noResiduals THEN flag = "PS_DROP"
         ELSE IF p.oob \/ removalState.flaggedForMarginalization
         THEN flag = IF marginalise THEN "PS_MARGINALIZE" ELSE "PS_DROP"
         ELSE Untouched(p)

\* C32 (as stated): a point with idepth_scaled < minIdepth or without
\* residuals is marked DROP; otherwise a point that is out of bounds or
\* whose host is flagged is marked MARGINALISE exactly when its Hessian
\* exceeds minIdepthH_marg and DROP otherwise; all other points stay
\* active and untouched
C32_Original == RemovalFlags(FALSE)

\* C32: a point with idepth_scaled < minIdepth or without residuals is
\* marked DROP; otherwise a point that is out of bounds or whose host is
\* flagged is marked MARGINALISE exactly when it is an inlier
\* (isInlierNew) and its Hessian exceeds minIdepthH_marg, and DROP
\* otherwise; all other points stay active and untouched
C32_PointRemovalFlags == RemovalFlags(TRUE)

\* on a flagged keyframe: a well constrained point that is not an inlier
\* is dropped, a well constrained inlier is marginalised
C32_Witness ==
  /\ removalState.pc = "flagged"
  /\ removalState.flaggedForMarginalization
  /\ Len(removalState.before) = 2
  /\ \A k \in 1..2 : /\ ~removalState.before[k].low
                     /\ ~removalState.before[k].noResiduals
                     /\ ~removalState.before[k].oob
                     /\ removalState.before[k].wellConstrained
  /\ ~removalState.before[1].inlier
  /\ removalState.before[2].inlier
  /\ removalState.stateFlag = <<"PS_DROP", "PS_MARGINALIZE">>

\* C40: after flagPointsForRemoval every point that left pointHessians is
\* on exactly one of pointHessiansMarginalized (flag PS_MARGINALIZE) and
\* pointHessiansOutlier (flag PS_DROP), once; a point still in
\* pointHessians is on neither; pointHessians has no null entry and no
\* point twice, and a keyframe flagged for marginalisation has no active
\* point left
C40_RemovalPartition ==
  removalState.pc = "flagged" =>
    /\ \A k \in 1..Len(removalState.before) :
         LET p == removalState.before[k]
             marg == Count(removalState.pointHessiansMarginalized, p.id)
             out == Count(removalState.pointHessiansOutlier, p.id)
         IN IF Count(removalState.pointHessians, p) = 0
            THEN /\ marg + out = 1
                 /\ marg = 1 =>
                      removalState.stateFlag[p.id] = "PS_MARGINALIZE"
                 /\ out = 1 => removalState.stateFlag[p.id] = "PS_DROP"
            ELSE /\ Count(removalState.pointHessians, p) = 1
                 /\ marg + out = 0
    /\ Count(removalState.pointHessians, NullHessian) = 0
    /\ removalState.flaggedForMarginalization =>
         removalState.pointHessians = <<>>

\* a flagged keyframe gave one point to each of the two lists
C40_Witness ==
  /\ removalState.pc = "flagged"
  /\ removalState.flaggedForMarginalization
  /\ Len(removalState.before) = 2
  /\ ~Unusable(removalState.before[1])
  /\ ~removalState.before[1].oob
  /\ removalState.pointHessiansMarginalized = <<1>>
  /\ removalState.pointHessiansOutlier = <<2>>
  /\ removalState.pointHessians = <<>>

\* the steps of one keyframe creation in the window component
Activation == mapState.pc = "adjusted" /\ mapState'.pc = "activated"
Optimisation == mapState.pc = "activated" /\ mapState'.pc = "optimized"
PointMarginalisation == mapState.pc = "optimized" /\ mapState'.pc = "removed"
NewImmaturePoints == mapState.pc = "removed" /\ mapState'.pc = "selected"
FrameMarginalisation == mapState.pc = "selected" /\ mapState'.pc = "idle"

\* the flagged keyframes that are still in the window
FlaggedInWindow(m) ==
  m.flaggedForMarginalization \cap WindowFrames(m.frameHessians)

\* the active points whose host is flagged
ActiveOnFlagged(m) ==
  {p \in m.pointHessians : p[1] \in m.flaggedForMarginalization}

\* the steps follow each other in one order; active points are added by
\* the activation only, immature points are created by one step only
\* and after the points of the flagged keyframes were taken out, and the
\* window shrinks in the marginalisation of the keyframes only
OrderedSteps ==
  /\ (mapState'.pc # mapState.pc /\ mapState.pc # "idle") =>
       \/ mapState.pc = "inserted" /\ mapState'.pc = "adjusted"
       \/ Activation
       \/ Optimisation
       \/ PointMarginalisation
       \/ NewImmaturePoints
       \/ FrameMarginalisation
  /\ (mapState.pc # "idle"
        /\ ~(mapState'.pointHessians \subseteq mapState.pointHessians))
       => Activation
  /\ ~(mapState'.immaturePoints \subseteq mapState.immaturePoints)
       => (NewImmaturePoints /\ ActiveOnFlagged(mapState) = {})
  /\ Len(mapState'.frameHessians) < Len(mapState.frameHessians)
       => FrameMarginalisation
  /\ FrameMarginalisation => FlaggedInWindow(mapState') = {}

\* C33 (as stated): within one keyframe creation the points are activated,
\* then the backend optimises, then points and flagged keyframes are
\* marginalised, and the immature points of the new keyframe are created
\* only when no flagged keyframe is left in the window
C33_Original ==
  [][/\ OrderedSteps
     /\ NewImmaturePoints => FlaggedInWindow(mapState) = {}]_vars

\* C33: within one keyframe creation the steps run in this order: point
\* activation, backend optimisation, flagging and marginalisation of the
\* points, creation of the immature points of the new keyframe, and
\* last the marginalisation of the flagged keyframes: when the immature
\* points are created no active point of a flagged keyframe is left,
\* while the flagged keyframes themselves are all still in the window
C33_StepOrder ==
  [][/\ OrderedSteps
     /\ NewImmaturePoints =>
          /\ FlaggedInWindow(mapState) = mapState.flaggedForMarginalization
          /\ mapState'.frameHessians = mapState.frameHessians]_vars

\* the immature points of the new keyframe exist while the flagged
\* keyframe is still in the window, without active points
C33_Witness ==
  /\ mapState.pc = "selected"
  /\ FlaggedInWindow(mapState) # {}
  /\ ActiveOnFlagged(mapState) = {}
  /\ \E p \in mapState.immaturePoints : p[1] = Last(mapState.frameHessians)
  /\ mapState.pointHessians # {}

\* the last traceOn call left the interval of the point as it was
IntervalKept ==
  /\ point.idepth_min = traceLog.prevMin
  /\ point.idepth_max = traceLog.prevMax

\* C39 (as stated): a traceOn call that returns SKIPPED, BADCONDITION, OOB
\* or OUTLIER leaves idepth_min and idepth_max as they were before the call
C39_Original ==
  (traceLog.stage # "none" /\ point.lastTraceStatus # "IPS_GOOD")
    => IntervalKept

\* the labels of a set of instructions
Labels(code) == {i.at : i \in code}

\* the thread is inside makeKeyFrame or makeNonKeyFrame
Mapping(t) ==
  lockState.pc[t] \in Labels(MakeKeyFrameCode) \cup
                      Labels(MakeNonKeyFrameCode) \cup
                      Labels(TraceNewCoarseCode)

\* the mutex the thread is about to take: by a lock statement, or on the
\* return of a wait
Wants(t) ==
  IF lockState.wait[t] = "woken" THEN {"trackMapSyncMutex"}
  ELSE IF At(t, "lock") THEN {Instr(lockState.pc[t]).arg}
  ELSE {}

\* the thread cannot proceed because another thread, or the thread
\* itself, owns the mutex it is about to take
Blocked(t) == \E m \in Wants(t) : lockState.owner[m] # "free"

\* the thread sleeps on a condition variable
Asleep(t) == lockState.wait[t] \notin {"none", "woken"}

\* some mutexes are, through a chain of pairs, held before themselves:
\* there is a set of mutexes each of which is held before one of the set
Cyclic(R) ==
  \E S \in SUBSET Mutexes :
     S # {} /\ \A m \in S : \E n \in S : <<m, n>> \in R

\* C34: in threaded mode the order in which the five mutexes are taken,
\* over addActiveFrame, deliverTrackedFrame and printResult on the one side
\* and mappingLoop, makeKeyFrame and makeNonKeyFrame on the other, has no
\* cycle; the mapper does not hold trackMapSyncMutex while it is inside
\* makeKeyFrame or makeNonKeyFrame; and a thread that is about to take a
\* mutex owned by another thread finds that thread neither blocked on a
\* mutex nor asleep on a signal, so the two threads never wait for each
\* other
C34_LockOrder ==
  /\ ~Cyclic(lockState.order)
  /\ Mapping("mapper") => lockState.owner["trackMapSyncMutex"] # "mapper"
  /\ \A t \in Threads :
       \A m \in Wants(t) :
          LET o == lockState.owner[m]
          IN o # "free" => o # t /\ ~Blocked(o) /\ ~Asleep(o)

\* every pair of the order has been seen, and the tracker, holding
\* trackMutex, is kept from shellPoseMutex, which the mapper owns
C34_Witness ==
  /\ lockState.order =
       {<<"trackMutex", "mapMutex">>, <<"trackMutex", "shellPoseMutex">>,
        <<"trackMutex", "coarseTrackerSwapMutex">>,
        <<"mapMutex", "shellPoseMutex">>,
        <<"mapMutex", "coarseTrackerSwapMutex">>,
        <<"trackMapSyncMutex", "shellPoseMutex">>}
  /\ Blocked("tracker")
  /\ Wants("tracker") = {"shellPoseMutex"}
  /\ lockState.owner["trackMutex"] = "tracker"
  /\ lockState.owner["shellPoseMutex"] = "mapper"

\* C36: the mapper writes a tracking reference only into the coarse
\* tracker that does not serve the tracker: while makeKeyFrame is between
\* makeK and the end of setCoarseTrackingRef it owns
\* coarseTrackerSwapMutex and the instance it writes is
\* coarseTracker_forNewKF, which is never the instance trackNewCoarse is
\* reading at that time; the tracker swaps the pointers only while it
\* owns coarseTrackerSwapMutex
C36_WriteAwayFromTracker ==
  /\ lockState.writing # "none" =>
       /\ lockState.owner["coarseTrackerSwapMutex"] = "mapper"
       /\ lockState.writing = ForNewKF(lockState)
       /\ lockState.writing # lockState.reading
  /\ lockState.reading # "none" =>
       lockState.reading = lockState.coarseTracker
  /\ lockState.pc["tracker"] = "aaf_doSwap" =>
       lockState.owner["coarseTrackerSwapMutex"] = "tracker"

\* after a swap the tracker reads B while the mapper writes A
C36_Witness ==
  /\ lockState.reading = "B"
  /\ lockState.writing = "A"
  /\ lockState.refFrameID["B"] > lockState.refFrameID["A"]

\* C38: whenever trackNewCoarse runs, the system is initialised,
\* allFrameHistory holds at least three frames (so allFrameHistory[size-2]
\* and [size-3] exist), the list of start poses is not empty whether or not
\* there is a hint and whether or not the previous poses are valid (so
\* lastF_2_fh_tries[0] exists), and the serving coarse tracker has a
\* reference keyframe
C38_TrackingInputsValid ==
  pc["tracker"] = "track" =>
    /\ initialized
    /\ Len(allFrameHistory) >= 3
    /\ \A hint \in BOOLEAN, posesValid \in BOOLEAN :
         Len(Seeds(hint, Len(allFrameHistory), posesValid)) > 0
    /\ refFrameID[coarseTracker] # -1

\* the first frame after the initialiser is tracked, in threaded mode,
\* against the reference the mapper has just installed
C38_Witness ==
  /\ pc["tracker"] = "track"
  /\ ~linearizeOperation
  /\ Len(allFrameHistory) = 3
  /\ refFrameID[coarseTracker] # -1

\* threaded mode without IMU and without setting_realTimeMaxKF
ThreadedVisualOnly ==
  ~linearizeOperation /\ ~setting_useIMU /\ ~setting_realTimeMaxKF

\* the mapper pops a frame and decides to make it a keyframe
KeyFrameDecided ==
  /\ pc["mapper"] = "loop"
  /\ pc'["mapper"] = "kf_pose"

\* a keyframe decision of the mapper taken when allKeyFramesHistory holds
\* at least atLeast keyframes finds the last request made against the
\* newest window keyframe; and once a keyframe has entered the window the
\* request that led to it is older than that keyframe
OneKeyFramePerRequest(atLeast) ==
  ThreadedVisualOnly =>
    /\ KeyFrameDecided /\ Len(allKeyFramesHistory) >= atLeast =>
         needNewKFAfter = backShellId
    /\ backShellId' # backShellId => needNewKFAfter' < backShellId'

\* (C37 as stated: every keyframe after the first one the mapper has made,
\* that is from the third keyframe of the system on)
C37_Original == [][OneKeyFramePerRequest(2)]_vars

\* C37: in threaded mode without IMU and without setting_realTimeMaxKF,
\* once the two forced keyframes of the mapper are made
\* (allKeyFramesHistory.size() > 2) the mapper makes a keyframe only if
\* the last needKF frame delivered was tracked against the newest window
\* keyframe (needNewKFAfter equals its shell id); the new keyframe has a
\* larger shell id, so the same request, and any request made against an
\* older keyframe, yields no second keyframe
C37_OneKeyFramePerRequest == [][OneKeyFramePerRequest(3)]_vars

\* the mapper has decided on a keyframe that is not forced, on a request
\* made against the newest window keyframe
C37_Witness ==
  /\ ThreadedVisualOnly
  /\ pc["mapper"] = "kf_pose"
  /\ job.kind = "KF"
  /\ ~job.forced
  /\ Len(allKeyFramesHistory) >= 3
  /\ needNewKFAfter = backShellId

\* the mapping loop has been told to stop, or the process has ended
Stopped == ~runMapping \/ ~Alive

\* frame f is in unmappedTrackedFrames
Queued(f) == \E k \in 1..Len(unmappedTrackedFrames) :
                unmappedTrackedFrames[k] = f

\* the tracker is inside deliverTrackedFrame in threaded mode
Delivering == ~linearizeOperation /\ pc["tracker"] \in {"deliver", "wait"}

\* C35: in threaded mode, with both threads scheduled fairly and unless
\* the system is shut down or the process ends, every frame in
\* unmappedTrackedFrames is eventually taken out by the mapper, every call
\* of deliverTrackedFrame returns, and the tracker that waits on
\* mappedFrameSignal for a reference is released with a reference
\* installed in coarseTracker_forNewKF
C35_HandOffProgress ==
  /\ \A f \in 0..(MaxLiveFrames - 1) :
       (~linearizeOperation /\ Queued(f)) ~> (~Queued(f) \/ Stopped)
  /\ Delivering ~> (pc["tracker"] = "idle" \/ Stopped)
  /\ (~linearizeOperation /\ pc["tracker"] = "wait")
       ~> (\/ /\ pc["tracker"] = "idle"
              /\ refFrameID[coarseTracker_forNewKF] # -1
           \/ Stopped)

\* the tracker has returned from its wait for the first reference, which
\* the forced keyframe 1 installed, and later frames were queued and popped
C35_Witness ==
  /\ ~linearizeOperation
  /\ pc["tracker"] = "idle"
  /\ runMapping
  /\ refFrameID[coarseTracker] # -1
  /\ popped >= 3
  /\ unmappedTrackedFrames = <<>>
  /\ pc["mapper"] = "wait"

====
